---- MODULE Spec2Model ----
(***************************************************************************)
(* The document model of the frame-by-frame animator: the App component's  *)
(* state (project, activeFrameId, redoStacks, isProcessing), its handlers  *)
(* (src/unnamed/part_009), the pure helpers of utils/project and           *)
(* utils/images (src/unnamed/part_000, part_001) and the entry points of   *)
(* StageEditor and FrameTimeline that call the handlers.                   *)
(*                                                                         *)
(* The component is re-rendered between two events, so the values a        *)
(* handler closes over (activeFrameId, activeFrame, activeLayer) are those *)
(* of the current state.  A setState updater runs either at the call       *)
(* (when the component has no update pending, React computes the state     *)
(* eagerly) or at the next render, after the handler has returned.  The    *)
(* state after the event is the same in both cases; what differs is what   *)
(* the rest of the handler reads from a local variable the updater         *)
(* assigns.  The handlers that do so (handleUndoStroke, handleRedoStroke,  *)
(* handleDeleteLayer, handleInsertFrame) take the parameter `eager`, which *)
(* the specifications choose freely.                                       *)
(*                                                                         *)
(* Asynchronous handlers are split at their awaits; what they captured     *)
(* when they were called is kept in the task record.  While isProcessing   *)
(* holds App renders ProcessingOverlay above the workspace: in the         *)
(* specifications that follow the pointer the steps the user starts are    *)
(* taken when it is not shown (Idle), the overlay's cancel button and the  *)
(* continuations of the running handlers at any time.  SpecTriggers and    *)
(* FairTriggers follow the keyboard instead, which the overlay does not    *)
(* stop: there a handler is started whenever its own conditions hold.      *)
(*                                                                         *)
(* utils/storage keeps the project under one key of IndexedDB.  `writes`   *)
(* is the queue of the writes issued and not yet completed and `stored`    *)
(* the document under the key.  In the runs of Start the database rejects  *)
(* every write, which saveProject and clearProject catch; SpecStorage      *)
(* starts with a database that accepts them.                               *)
(*                                                                         *)
(* handleMovieGenerate is followed up to the canvas of each frame: what    *)
(* the canvas is filled with and which layers are drawn on it.             *)
(* The files 'frame_NNNN.png' that handleMovieGenerate and the decoder of  *)
(* handleVideoSelected write to the engine's file system are kept in       *)
(* `frameFiles`, by their number, each with what it shows and its height.  *)
(*                                                                         *)
(* FrameTimeline's playback is `playback`: whether it plays, the refs of   *)
(* animate, and the frames of the render in which Play was pressed, which  *)
(* the animate that reschedules itself goes on using.                      *)
(***************************************************************************)
EXTENDS Integers, Sequences, FiniteSets, TLC

VARIABLES
    project,         \* useState<AnimatorProject | null>
    activeFrameId,   \* useState<string | null>
    redoStacks,      \* useState<Record<string, DrawingStroke[]>>
    isProcessing,    \* useState(false)
    nextId,          \* the next value uuidv4() returns
    now,             \* the value Date.now() returns
    idLimit,         \* how many times uuidv4() can be called in this run
    pendingCommits,  \* commits scheduled by finishStroke (requestAnimationFrame)
    autoTrace,       \* the running handleAutoTrace call, if any
    autoTraceCancelled, \* autoTraceCancelledRef.current
    videoImport,     \* the running handleVideoSelected call, if any
    blankCanvas,     \* the running handleCreateBlankCanvas call, if any
    movieExport,     \* the running handleMovieGenerate call, if any
    clearing,        \* the running confirmClearProject call, if any
    writes,          \* the writes to IndexedDB that have not completed, oldest first
    stored,          \* the document under PROJECT_KEY in IndexedDB
    storeAvailable,  \* IndexedDB accepts writes in this run
    playback,        \* FrameTimeline: isPlaying, the refs and what animate closed over
    frameFiles,      \* the files 'frame_NNNN.png' of the engine's file system, by NNNN
    hist             \* history of the last operations (observer only)

vars == <<project, activeFrameId, redoStacks, isProcessing, nextId, now, idLimit,
          pendingCommits, autoTrace, autoTraceCancelled, videoImport,
          blankCanvas, movieExport, clearing, writes, stored, storeAvailable,
          playback, frameFiles, hist>>

-----------------------------------------------------------------------------
(* Bounds of the model *)

\* uuidv4() is called at most MaxIds times in the specification of the
\* frames, and at most this many times in those of the strokes, of the
\* handlers and of the controls
MaxIds == 10
IdsStrokes == 6
IdsHandlers == 6
IdsControls == 6
IdsDrawing == 6
IdsExport == 7
IdsTrace == 8
IdsTriggers == 6
IdsStorage == 5
IdsLayers == 6
IdsTimeline == 6
IdsTraceDraw == 8
IdsEngine == 9
\* frames of a project
MaxFrames == 3
\* layers of a frame the user adds by hand or by image import
MaxLayers == 3
\* strokes of one layer
MaxStrokes == 2
\* frames one video decodes to
MaxDecoded == 2
\* commits waiting for their animation frame
MaxPending == 1
\* writes to IndexedDB that have not completed
MaxWrites == 2
\* frame durations a playback can have run for when animate is called
MaxOffset == 2

(* Program constants *)

\* createBlankCanvasFrame: canvas.width, canvas.height
CanvasWidth == 720
CanvasHeight == 405

-----------------------------------------------------------------------------
(* Values *)

Undefined == "undefined"
NullId == 0

Min(a, b) == IF a < b THEN a ELSE b
Max(a, b) == IF a > b THEN a ELSE b

Url(kind, tag, w, h) == [kind |-> kind, tag |-> tag, w |-> w, h |-> h]
NoUrl == Url("none", "", 0, 0)

\* the image files the user may pick, the contents a decoded video frame may
\* have, the heights a decoded frame may have, the colours of the prompt
ImageFiles == {"a.png", "b.png"}
FrameContents == {"shot1", "shot2"}
VideoHeights == {540}
BackgroundChoices == {"#0f172a,#1a1f3b"}
DefaultBackground == "#0f172a"
WhiteBackground == "#ffffff"
UntitledProject == "Untitled project"

\* reader.result of an image file
ImageDataUrl(file) == Url("image", file, 0, 0)
\* blobToDataUrl of a decoded frame file
FrameDataUrl(content) == Url("frame", content, 0, 0)
\* generateOutlineMask(src): an image derived from its source
OutlineDataUrl(src) ==
    Url(IF src.kind = "image" THEN "outline:image"
        ELSE IF src.kind = "frame" THEN "outline:frame"
        ELSE "outline:other", src.tag, 0, 0)

-----------------------------------------------------------------------------
(* Strings, as sequences of characters *)

UpperChars == <<"A","B","C","D","E","F","G","H","I","J","K","L","M",
                "N","O","P","Q","R","S","T","U","V","W","X","Y","Z">>
LowerChars == <<"a","b","c","d","e","f","g","h","i","j","k","l","m",
                "n","o","p","q","r","s","t","u","v","w","x","y","z">>
DigitChars == <<"0","1","2","3","4","5","6","7","8","9">>

\* the lower-case letter of each upper-case letter
LowerOf == [c \in {UpperChars[i] : i \in 1..Len(UpperChars)} |->
               LowerChars[CHOOSE i \in 1..Len(UpperChars) : UpperChars[i] = c]]

LowerChar(c) == IF c \in DOMAIN LowerOf THEN LowerOf[c] ELSE c

toLowerCase(s) == [i \in 1..Len(s) |-> LowerChar(s[i])]

IsSpace(c) == c = " "

trim(s) ==
    LET keep == {i \in 1..Len(s) : ~IsSpace(s[i])}
    IN  IF keep = {} THEN <<>>
        ELSE LET first == CHOOSE i \in keep : \A j \in keep : i <= j
                 last  == CHOOSE i \in keep : \A j \in keep : j <= i
             IN  SubSeq(s, first, last)

startsWith(s, prefix) ==
    /\ Len(prefix) <= Len(s)
    /\ SubSeq(s, 1, Len(prefix)) = prefix

RECURSIVE NumberToString(_)
NumberToString(n) ==
    IF n < 10 THEN <<DigitChars[n + 1]>>
    ELSE NumberToString(n \div 10) \o <<DigitChars[(n % 10) + 1]>>

\* `Layer ${n}`, `Image ${n}`, 'Video Layer 1', 'Auto Trace 1', 'Auto Trace'
LayerName(n) == <<"L","a","y","e","r"," ">> \o NumberToString(n)
ImageName(n) == <<"I","m","a","g","e"," ">> \o NumberToString(n)
VideoLayerName == <<"V","i","d","e","o"," ","L","a","y","e","r"," ","1">>
AutoTracePrefix == <<"A","u","t","o"," ","T","r","a","c","e">>
AutoTraceName == AutoTracePrefix \o <<" ","1">>

PROTECTED_LAYER_NAME == <<"l","a","y","e","r"," ","1">>

isProtectedLayerNoLower(name) == trim(name) = PROTECTED_LAYER_NAME

isProtectedLayer(name) == toLowerCase(trim(name)) = PROTECTED_LAYER_NAME

-----------------------------------------------------------------------------
(* Sequences *)

\* Array.prototype.findIndex, 1-based, given the indexes of the elements that
\* pass the test; 0 when none does
FindIndex(matching) ==
    IF matching = {} THEN 0
    ELSE CHOOSE i \in matching : \A j \in matching : i <= j

RemoveAt(s, i) == SubSeq(s, 1, i - 1) \o SubSeq(s, i + 1, Len(s))

\* copy.splice(i, 0, x) with a 0-based i
SpliceIn(s, i, x) == SubSeq(s, 1, i) \o <<x>> \o SubSeq(s, i + 1, Len(s))

ReplaceAt(s, i, x) == [j \in 1..Len(s) |-> IF j = i THEN x ELSE s[j]]

-----------------------------------------------------------------------------
(* types.ts: DrawingStroke, DrawingLayer, FrameData, AnimatorProject *)

Stroke(id, points) == [id |-> id, points |-> points]

\* the draft strokes a pointer gesture can end with: one coordinate pair
\* (pointer down only) or two (pointer down and one move)
DraftPoints == {<<0, 0>>, <<0, 0, 1, 1>>}

NullProject ==
    [isNull |-> TRUE, name |-> Undefined, backgroundColor |-> Undefined,
     audioUrl |-> Undefined, frames |-> <<>>, updatedAt |-> 0]

MakeProject(name, backgroundColor, frames, audioUrl, t) ==
    [isNull |-> FALSE, name |-> name, backgroundColor |-> backgroundColor,
     audioUrl |-> audioUrl, frames |-> frames, updatedAt |-> t]

\* { ...current, frames, updatedAt: Date.now() }
SpreadFrames(current, frames, t) ==
    [current EXCEPT !.frames = frames, !.updatedAt = t]

\* { frames, updatedAt: Date.now() }
FramesOnly(frames, t) == MakeProject(Undefined, Undefined, frames, Undefined, t)

\* utils/project: createLayer
createLayer(id, name) ==
    [id |-> id, name |-> name, visible |-> TRUE, strokes |-> <<>>, imageUrl |-> NoUrl]

\* utils/images: createBackgroundImage
createBackgroundImage(backgroundColor, width, height) ==
    Url("background", backgroundColor, width, height)

\* utils/images: createBlankCanvasFrame; layerId and frameId are the two
\* uuids it draws, in that order
createBlankCanvasFrame(backgroundColor, layerId, frameId) ==
    [id |-> frameId, frameNumber |-> 0,
     imageUrl |-> createBackgroundImage(backgroundColor, CanvasWidth, CanvasHeight),
     layers |-> <<createLayer(layerId, LayerName(1))>>,
     activeLayerId |-> layerId,
     width |-> CanvasWidth, height |-> CanvasHeight]

RECURSIVE Flatten(_)
Flatten(ss) == IF ss = <<>> THEN <<>> ELSE Head(ss) \o Flatten(Tail(ss))

AllLayers(frames) == Flatten([i \in 1..Len(frames) |-> frames[i].layers])

RECURSIVE FirstByUrl(_, _)
FirstByUrl(layers, seen) ==
    IF layers = <<>> THEN <<>>
    ELSE LET layer == Head(layers)
         IN  IF layer.imageUrl # NoUrl /\ layer.imageUrl \notin seen
             THEN <<layer>> \o FirstByUrl(Tail(layers), seen \cup {layer.imageUrl})
             ELSE FirstByUrl(Tail(layers), seen)

RECURSIVE EveryImageLayer(_, _)
EveryImageLayer(layers, seen) ==
    IF layers = <<>> THEN <<>>
    ELSE LET layer == Head(layers)
         IN  IF layer.imageUrl # NoUrl
             THEN <<layer>> \o EveryImageLayer(Tail(layers), seen)
             ELSE EveryImageLayer(Tail(layers), seen)

\* utils/project: cloneVisibleImageLayers
cloneVisibleImageLayers(frames) == FirstByUrl(AllLayers(frames), {})

NeverHasImageLayer(frame, dataUrl) == FALSE

\* applyImageLayerToFrames: hasImageLayer once the layers are mapped
HasImageLayer(frame, dataUrl) ==
    \E i \in 1..Len(frame.layers) : frame.layers[i].imageUrl = dataUrl

\* the frames applyImageLayerToFrames creates a layer for, in order
FramesLacking(frames, dataUrl) ==
    {i \in 1..Len(frames) : ~HasImageLayer(frames[i], dataUrl)}

\* shouldEnable of applyImageLayerToFrames
ShouldEnable(scope, frameId, targetFrameId) ==
    scope = "all" \/ frameId = targetFrameId

\* utils/project: applyImageLayerToFrames; the k-th new layer gets id firstId+k-1
applyImageLayerToFrames(frames, targetFrameId, dataUrl, scope, firstId) ==
    [i \in 1..Len(frames) |->
        LET frame == frames[i]
            shouldEnable == ShouldEnable(scope, frame.id, targetFrameId)
            updatedLayers ==
                [j \in 1..Len(frame.layers) |->
                    IF frame.layers[j].imageUrl = dataUrl
                    THEN [frame.layers[j] EXCEPT !.visible = shouldEnable]
                    ELSE frame.layers[j]]
            newId == firstId + Cardinality({k \in FramesLacking(frames, dataUrl) : k < i})
            imageLayer ==
                [createLayer(newId, ImageName(Len(frame.layers) + 1))
                    EXCEPT !.imageUrl = dataUrl, !.visible = shouldEnable]
        IN  IF HasImageLayer(frame, dataUrl)
            THEN [frame EXCEPT !.layers = updatedLayers]
            ELSE [frame EXCEPT !.layers = Append(updatedLayers, imageLayer)]]

-----------------------------------------------------------------------------
(* Values the App component derives from its state on every render *)

FrameIndexOf(p, frameId) ==
    IF p.isNull THEN 0
    ELSE FindIndex({i \in 1..Len(p.frames) : p.frames[i].id = frameId})

LayerIndexOf(frame, layerId) ==
    FindIndex({j \in 1..Len(frame.layers) : frame.layers[j].id = layerId})

\* activeFrame, activeLayer (useMemo); HasActiveFrame is activeFrame !== null
HasActiveFrame == FrameIndexOf(project, activeFrameId) # 0
ActiveFrame == project.frames[FrameIndexOf(project, activeFrameId)]
HasActiveLayer ==
    HasActiveFrame /\ LayerIndexOf(ActiveFrame, ActiveFrame.activeLayerId) # 0
ActiveLayer == ActiveFrame.layers[LayerIndexOf(ActiveFrame, ActiveFrame.activeLayerId)]

StackKey(frameId, layerId) == <<frameId, layerId>>

StackOf(stacks, key) == IF key \in DOMAIN stacks THEN stacks[key] ELSE <<>>

SetKey(stacks, key, value) ==
    [k \in (DOMAIN stacks) \cup {key} |-> IF k = key THEN value ELSE stacks[k]]

RemoveKey(stacks, key) == [k \in (DOMAIN stacks) \ {key} |-> stacks[k]]

canUndo == HasActiveLayer /\ Len(ActiveLayer.strokes) > 0
canRedo ==
    HasActiveLayer
    /\ Len(StackOf(redoStacks, StackKey(ActiveFrame.id, ActiveLayer.id))) > 0

\* useEffect: a project with frames and no active frame selects frames[0]
SelectFirstFrameEffect(p, frameId) ==
    IF ~p.isNull /\ Len(p.frames) > 0 /\ frameId = NullId
    THEN p.frames[1].id
    ELSE frameId

FrameIds(p) == {p.frames[i].id : i \in 1..Len(p.frames)}
LayerIds(frame) == {frame.layers[i].id : i \in 1..Len(frame.layers)}

KeepNumbers(frames) == frames

\* frames.map((frame, index) => ({ ...frame, frameNumber: index }))
Renumber(frames) == [i \in 1..Len(frames) |-> [frames[i] EXCEPT !.frameNumber = i - 1]]

-----------------------------------------------------------------------------
(* The setProject updaters of the handlers of App (src/unnamed/part_009) *)

\* handleCommitStroke: setProject((current) => ...)
CommitStrokeEveryLayer(current, frameId, layerId, stroke, t) ==
    IF current.isNull THEN current
    ELSE FramesOnly(
            [i \in 1..Len(current.frames) |->
                LET frame == current.frames[i]
                IN  IF frame.id # frameId THEN frame
                    ELSE [frame EXCEPT !.layers =
                            [j \in 1..Len(frame.layers) |->
                                [frame.layers[j] EXCEPT
                                    !.strokes = Append(frame.layers[j].strokes, stroke)]]]], t)

CommitStrokeUpdater(current, frameId, layerId, stroke, t) ==
    IF current.isNull THEN current
    ELSE FramesOnly(
            [i \in 1..Len(current.frames) |->
                LET frame == current.frames[i]
                IN  IF frame.id # frameId THEN frame
                    ELSE [frame EXCEPT !.layers =
                            [j \in 1..Len(frame.layers) |->
                                IF frame.layers[j].id = layerId
                                THEN [frame.layers[j] EXCEPT
                                        !.strokes = Append(frame.layers[j].strokes, stroke)]
                                ELSE frame.layers[j]]]], t)

CommitRedoKeep(prev, stackKey) == prev

\* handleCommitStroke: setRedoStacks((prev) => ({ ...prev, [stackKey]: [] }))
CommitRedoUpdater(prev, stackKey) == SetKey(prev, stackKey, <<>>)

\* handleUndoStroke: the stroke the updater removes (removedStroke), as a
\* sequence of zero or one stroke
UndoRemoved(current, frameId, layerId) ==
    LET frameIndex == FrameIndexOf(current, frameId)
    IN  IF frameIndex = 0 THEN <<>>
        ELSE LET frame == current.frames[frameIndex]
                 layerIndex == LayerIndexOf(frame, layerId)
             IN  IF layerIndex = 0 THEN <<>>
                 ELSE LET strokes == frame.layers[layerIndex].strokes
                      IN  IF Len(strokes) = 0 THEN <<>>
                          ELSE <<strokes[Len(strokes)]>>

\* handleUndoStroke: setProject((current) => ...)
UndoUpdater(current, frameId, layerId, t) ==
    IF UndoRemoved(current, frameId, layerId) = <<>> THEN current
    ELSE LET frameIndex == FrameIndexOf(current, frameId)
             frame == current.frames[frameIndex]
             layerIndex == LayerIndexOf(frame, layerId)
             targetLayer == frame.layers[layerIndex]
             updatedLayer == [targetLayer EXCEPT
                 !.strokes = SubSeq(targetLayer.strokes, 1, Len(targetLayer.strokes) - 1)]
             updatedFrame == [frame EXCEPT
                 !.layers = ReplaceAt(frame.layers, layerIndex, updatedLayer)]
         IN  FramesOnly(ReplaceAt(current.frames, frameIndex, updatedFrame), t)

\* handleRedoStroke: strokeToRestore = stack[stack.length - 1]
RedoTop(stack) == stack[Len(stack)]

\* handleRedoStroke: stack.slice(0, -1)
RedoRest(stack) == SubSeq(stack, 1, Len(stack) - 1)

\* handleRedoStroke: setProject((current) => ...)
RedoUpdater(current, frameId, layerId, strokeToRestore, t) ==
    LET frameIndex == FrameIndexOf(current, frameId)
    IN  IF frameIndex = 0 THEN current
        ELSE LET frame == current.frames[frameIndex]
                 layerIndex == LayerIndexOf(frame, layerId)
             IN  IF layerIndex = 0 THEN current
                 ELSE LET targetLayer == frame.layers[layerIndex]
                          updatedLayer == [targetLayer EXCEPT
                              !.strokes = Append(targetLayer.strokes, strokeToRestore)]
                          updatedFrame == [frame EXCEPT
                              !.layers = ReplaceAt(frame.layers, layerIndex, updatedLayer)]
                      IN  FramesOnly(ReplaceAt(current.frames, frameIndex, updatedFrame), t)

FallbackFirst(layerIndex) == 1

\* handleDeleteLayer: fallbackIndex = Math.max(layerIndex - 1, 0), as a 1-based
\* index into remainingLayers for the 1-based layerIndex
FallbackLayer(layerIndex) == Max(layerIndex - 1, 1)

KeepActiveLayerId(frame, layerIndex, remainingLayers) == frame.activeLayerId

\* handleDeleteLayer: nextActiveLayerId; with nothing left to fall back to,
\* remainingLayers[fallbackIndex]?.id ?? remainingLayers[0]?.id ?? null
NextActiveLayerId(frame, layerIndex, remainingLayers) ==
    IF frame.activeLayerId = frame.layers[layerIndex].id
    THEN IF FallbackLayer(layerIndex) \in 1..Len(remainingLayers)
         THEN remainingLayers[FallbackLayer(layerIndex)].id
         ELSE NullId
    ELSE frame.activeLayerId

\* handleDeleteLayer: the frame without the layer at layerIndex
WithoutLayer(frame, layerIndex) ==
    LET remainingLayers == RemoveAt(frame.layers, layerIndex)
    IN  [frame EXCEPT !.layers = remainingLayers,
                      !.activeLayerId = NextActiveLayerId(frame, layerIndex, remainingLayers)]

MatchAllNoGuard(frame, layerId, layerName) ==
    FindIndex({j \in 1..Len(frame.layers) :
                  \/ frame.layers[j].id = layerId
                  \/ (IF layerName # <<>> THEN frame.layers[j].name = layerName ELSE FALSE)})

\* handleDeleteLayer, scope 'all': the layer of `frame` the call removes (0: none)
MatchAll(frame, layerId, layerName) ==
    IF Len(frame.layers) <= 1 THEN 0
    ELSE FindIndex({j \in 1..Len(frame.layers) :
                       \/ frame.layers[j].id = layerId
                       \/ (IF layerName # <<>> THEN frame.layers[j].name = layerName ELSE FALSE)})

\* handleDeleteLayer, scope 'frame': the layer of `frame` the call removes (0: none)
MatchFrame(frame, layerId) ==
    IF Len(frame.layers) <= 1 THEN 0 ELSE LayerIndexOf(frame, layerId)

\* handleDeleteLayer: setProject((current) => ...), with the flag `deleted`
DeleteLayerUpdater(current, frameId, layerId, scope, layerName, t) ==
    IF current.isNull THEN [project |-> current, deleted |-> FALSE]
    ELSE IF scope = "all"
    THEN LET removedAny ==
                 \E i \in 1..Len(current.frames) :
                     MatchAll(current.frames[i], layerId, layerName) # 0
             updatedFrames ==
                 [i \in 1..Len(current.frames) |->
                     LET frame == current.frames[i]
                         layerIndex == MatchAll(frame, layerId, layerName)
                     IN  IF layerIndex = 0 THEN frame
                         ELSE WithoutLayer(frame, layerIndex)]
         IN  IF ~removedAny THEN [project |-> current, deleted |-> FALSE]
             ELSE [project |-> SpreadFrames(current, updatedFrames, t),
                   deleted |-> TRUE]
    ELSE LET frameIndex == FrameIndexOf(current, frameId)
         IN  IF frameId = NullId \/ frameIndex = 0
             THEN [project |-> current, deleted |-> FALSE]
             ELSE LET frame == current.frames[frameIndex]
                      layerIndex == MatchFrame(frame, layerId)
                  IN  IF layerIndex = 0
                      THEN [project |-> current, deleted |-> FALSE]
                      ELSE [project |->
                                FramesOnly(ReplaceAt(current.frames, frameIndex,
                                                     WithoutLayer(frame, layerIndex)), t),
                            deleted |-> TRUE]

\* handleDeleteLayer: project and redoStacks after the call.  `deleted` is
\* assigned inside the setProject updater and read right after setProject
\* returns: the handler sees it only when the updater ran at the call (eager)
\* and not at the next render.  `queued` tells whether an update is now
\* waiting for the render, `saved` lists the documents given to saveProject.
handleDeleteLayer(st, frameId, layerId, scope, layerName, t, eager) ==
    LET r == DeleteLayerUpdater(st.project, frameId, layerId, scope, layerName, t)
    IN  [project |-> r.project,
         redoStacks |->
            IF eager /\ r.deleted /\ scope = "frame"
            THEN RemoveKey(st.redoStacks, StackKey(frameId, layerId))
            ELSE st.redoStacks,
         queued |-> ~eager \/ r.deleted,
         saved |-> IF r.deleted THEN Append(st.saved, r.project) ELSE st.saved]

\* StageEditor.executeDeleteLayers: targets.forEach(onDeleteLayer(...)); once
\* an update is queued the later updaters of the same event run at the render
RECURSIVE DeleteEach(_, _, _, _, _, _)
DeleteEach(st, frameId, targets, scope, t, eager) ==
    IF targets = <<>> THEN st
    ELSE LET r == handleDeleteLayer(st, frameId, Head(targets).id, scope,
                                    Head(targets).name, t, eager)
         IN  DeleteEach(r, frameId, Tail(targets), scope, t, eager /\ ~r.queued)

\* handleAddLayer: setProject((current) => ...)
AddLayerUpdater(current, frameId, newLayerId, t) ==
    LET frameIndex == FrameIndexOf(current, frameId)
    IN  IF current.isNull \/ frameId = NullId \/ frameIndex = 0 THEN current
        ELSE LET frame == current.frames[frameIndex]
                 newLayer == createLayer(newLayerId, LayerName(Len(frame.layers) + 1))
                 updatedFrame == [frame EXCEPT
                     !.layers = Append(frame.layers, newLayer),
                     !.activeLayerId = newLayer.id]
             IN  FramesOnly(ReplaceAt(current.frames, frameIndex, updatedFrame), t)

\* handleSelectLayer: setProject((current) => ...)
SelectLayerUpdater(current, frameId, layerId, t) ==
    LET frameIndex == FrameIndexOf(current, frameId)
    IN  IF current.isNull \/ frameId = NullId \/ frameIndex = 0 THEN current
        ELSE LET frame == current.frames[frameIndex]
             IN  IF frame.activeLayerId = layerId THEN current
                 ELSE FramesOnly(ReplaceAt(current.frames, frameIndex,
                                           [frame EXCEPT !.activeLayerId = layerId]), t)

\* handleToggleLayerVisibility: setProject((current) => ...)
ToggleLayerUpdater(current, frameId, layerId, t) ==
    LET frameIndex == FrameIndexOf(current, frameId)
    IN  IF current.isNull \/ frameId = NullId \/ frameIndex = 0 THEN current
        ELSE LET frame == current.frames[frameIndex]
                 updatedLayers ==
                     [j \in 1..Len(frame.layers) |->
                         IF frame.layers[j].id = layerId
                         THEN [frame.layers[j] EXCEPT !.visible = ~frame.layers[j].visible]
                         ELSE frame.layers[j]]
             IN  FramesOnly(ReplaceAt(current.frames, frameIndex,
                                      [frame EXCEPT !.layers = updatedLayers]), t)

\* applyImageToFrames: setProject((current) => ...)
ApplyImageUpdater(current, frameId, dataUrl, scope, firstId, t) ==
    IF current.isNull \/ frameId = NullId THEN current
    ELSE FramesOnly(applyImageLayerToFrames(current.frames, frameId, dataUrl, scope, firstId), t)

\* handleClearFrame: setProject((current) => ...)
ClearFrameUpdater(current, frameId, layerId, uuid, t) ==
    LET frameIndex == FrameIndexOf(current, frameId)
    IN  IF current.isNull \/ frameIndex = 0 THEN current
        ELSE LET old == current.frames[frameIndex]
             IN  IF current.backgroundColor = Undefined /\ old.imageUrl # NoUrl
                 THEN LET freshFrame ==
                              [createBlankCanvasFrame(DefaultBackground, layerId, uuid) EXCEPT
                                  !.id = frameId,
                                  !.frameNumber = old.frameNumber,
                                  !.imageUrl = old.imageUrl,
                                  !.width = old.width,
                                  !.height = old.height]
                      IN  SpreadFrames(current,
                                       ReplaceAt(current.frames, frameIndex, freshFrame), t)
                 ELSE LET backgroundColor ==
                              IF current.backgroundColor = Undefined
                              THEN DefaultBackground ELSE current.backgroundColor
                          freshFrame ==
                              [createBlankCanvasFrame(backgroundColor, layerId, uuid) EXCEPT
                                  !.id = frameId,
                                  !.frameNumber = old.frameNumber]
                      IN  [SpreadFrames(current,
                                        ReplaceAt(current.frames, frameIndex, freshFrame), t)
                              EXCEPT !.backgroundColor = backgroundColor]

\* handleInsertFrame: insertIndex, 0-based, for the 1-based sourceIndex
InsertIndex(direction, sourceIndex) ==
    IF direction = "left" THEN sourceIndex - 1 ELSE sourceIndex

PaletteEvery(frames) == EveryImageLayer(AllLayers(frames), {})

\* handleInsertFrame: imagePalette
Palette(frames) == cloneVisibleImageLayers(frames)

\* handleInsertFrame: the new frame; uuids firstId.. go to the blank layer,
\* the image layers and the frame, in that order
NewFrameOf(current, sourceIndex, firstId) ==
    LET sourceFrame == current.frames[sourceIndex]
        imagePalette == Palette(current.frames)
        blankLayer == createLayer(firstId, LayerName(1))
        imageLayers ==
            [k \in 1..Len(imagePalette) |->
                [createLayer(firstId + k, imagePalette[k].name) EXCEPT
                    !.imageUrl = imagePalette[k].imageUrl,
                    !.visible = FALSE]]
    IN  [id |-> firstId + Len(imagePalette) + 1,
         frameNumber |-> sourceIndex - 1,
         imageUrl |-> sourceFrame.imageUrl,
         layers |-> <<blankLayer>> \o imageLayers,
         activeLayerId |-> blankLayer.id,
         width |-> sourceFrame.width,
         height |-> sourceFrame.height]

\* handleInsertFrame: setProject((current) => ...)
InsertFrameUpdater(current, frameId, direction, firstId, t) ==
    LET sourceIndex == FrameIndexOf(current, frameId)
    IN  IF current.isNull \/ Len(current.frames) = 0 \/ sourceIndex = 0 THEN current
        ELSE FramesOnly(Renumber(SpliceIn(current.frames,
                                          InsertIndex(direction, sourceIndex),
                                          NewFrameOf(current, sourceIndex, firstId))), t)

NewActiveIndexBefore(frameIndex, remaining) == Max(frameIndex - 1, 1)

\* handleDeleteFrame: newActiveIndex = Math.min(frameIndex, frames.length - 1),
\* 1-based, for the 1-based frameIndex and the number of frames that remain
NewActiveIndex(frameIndex, remaining) == Min(frameIndex, remaining)

DeleteFrameRefusedIfEmpty(current, frameIndex) ==
    current.isNull \/ Len(current.frames) < 1 \/ frameIndex = 0

\* handleDeleteFrame: the early returns of the updater
DeleteFrameRefused(current, frameIndex) ==
    current.isNull \/ Len(current.frames) <= 1 \/ frameIndex = 0

\* handleDeleteFrame: setProject((current) => ...)
DeleteFrameUpdater(current, frameId, t) ==
    LET frameIndex == FrameIndexOf(current, frameId)
    IN  IF DeleteFrameRefused(current, frameIndex) THEN current
        ELSE FramesOnly(Renumber(SelectSeq(current.frames, LAMBDA f : f.id # frameId)), t)

-----------------------------------------------------------------------------
(* State after construction *)

IdleTask == [pc |-> "idle"]

\* the engine's file system before anything is written to it
NoFrameFiles == <<>>

\* no operation of interest has just run
NoHist ==
    [op |-> "none", key |-> StackKey(NullId, NullId), strokes |-> <<>>,
     prev |-> <<>>, undos |-> 0, redos |-> 0, frameId |-> NullId,
     layerId |-> NullId, scope |-> "", name |-> <<>>, index |-> 0, count |-> 0,
     removed |-> 0, wasActive |-> FALSE, sole |-> FALSE, url |-> NoUrl,
     finished |-> 0, before |-> <<>>, captured |-> <<>>, collected |-> <<>>,
     call |-> "", target |-> StackKey(NullId, NullId)]

\* FrameTimeline when it does not play.  `last` is lastFrameIndexRef.current
\* plus one (0 for -1), `start` is startFrameRef.current, `offset` the
\* frameOffset of the last call of animate (-1: startTimeRef is not set),
\* `frames` the ids of the frames the running animate closed over
StoppedPlayback(last) ==
    [playing |-> FALSE, frames |-> <<>>, start |-> 0, offset |-> -1, last |-> last]

StartWith(ids, available) ==
    /\ project = NullProject
    /\ activeFrameId = NullId
    /\ redoStacks = <<>>
    /\ isProcessing = FALSE
    /\ nextId = 1
    /\ now = 0
    /\ idLimit = ids
    /\ pendingCommits = <<>>
    /\ autoTrace = IdleTask
    /\ autoTraceCancelled = FALSE
    /\ videoImport = IdleTask
    /\ blankCanvas = IdleTask
    /\ movieExport = IdleTask
    /\ clearing = IdleTask
    /\ writes = <<>>
    /\ stored = NullProject
    /\ storeAvailable = available
    /\ playback = StoppedPlayback(0)
    /\ frameFiles = NoFrameFiles
    /\ hist = NoHist

\* a run where IndexedDB rejects every write: saveProject and clearProject
\* catch the error and log it, and nothing is stored
Start(ids) == StartWith(ids, FALSE)

\* hasProject = Boolean(project?.frames.length)
hasProject == ~project.isNull /\ Len(project.frames) > 0

\* uuidv4() can still be called k times
CanDraw(k) == nextId + k - 1 <= idLimit

Tasks == <<autoTrace, autoTraceCancelled, videoImport, blankCanvas, movieExport, clearing>>

\* what most handlers of App leave alone: the clock, the supply of ids, the
\* database, the playback of FrameTimeline, and the engine's file system
World == <<now, idLimit, storeAvailable, playback, frameFiles>>

-----------------------------------------------------------------------------
(* utils/storage: saveProject and clearProject on idb-keyval.  Each call  *)
(* opens its own readwrite transaction on the one object store; IndexedDB *)
(* runs such transactions in the order they were created, so the writes   *)
(* complete in the order of the calls.                                    *)

Store == <<writes, stored>>

\* a write of `doc` (NullProject: del); `waiter` is the handler that awaits it
Write(doc, waiter) == [doc |-> doc, waiter |-> waiter]

Issued(docs, waiter) ==
    IF storeAvailable
    THEN writes \o [k \in 1..Len(docs) |-> Write(docs[k], waiter)]
    ELSE writes

\* void saveProject(doc), for each doc of docs in turn
Saves(docs) ==
    /\ writes' = Issued(docs, "none")
    /\ Len(writes') <= MaxWrites
    /\ stored' = stored

\* await saveProject(doc) or await clearProject(), called by `waiter`
SavesAndWaits(doc, waiter) ==
    /\ writes' = Issued(<<doc>>, waiter)
    /\ Len(writes') <= MaxWrites
    /\ stored' = stored

\* the write `waiter` awaits completes and its promise resolves; when
\* IndexedDB rejects, the promise resolves once the error is caught
Awaited(waiter) ==
    IF storeAvailable
    THEN /\ writes # <<>>
         /\ Head(writes).waiter = waiter
         /\ stored' = Head(writes).doc
         /\ writes' = Tail(writes)
    ELSE UNCHANGED Store

-----------------------------------------------------------------------------
(* The observer: what hist records of the operations that have just run *)

\* the strokes of the layer a redo key names (none when it is gone)
StrokesAt(p, key) ==
    LET frameIndex == FrameIndexOf(p, key[1])
    IN  IF frameIndex = 0 THEN <<>>
        ELSE LET layerIndex == LayerIndexOf(p.frames[frameIndex], key[2])
             IN  IF layerIndex = 0 THEN <<>>
                 ELSE p.frames[frameIndex].layers[layerIndex].strokes

RECURSIVE SumLayers(_)
SumLayers(frames) ==
    IF frames = <<>> THEN 0 ELSE Len(Head(frames).layers) + SumLayers(Tail(frames))

\* an undo of a non-empty layer starts or extends a run of undos; the run
\* keeps the stroke list before its first undo and before its last one
ObserveUndo ==
    LET key == StackKey(ActiveFrame.id, ActiveLayer.id)
        strokes == ActiveLayer.strokes
    IN  IF Len(strokes) = 0 THEN NoHist
        ELSE IF hist.op = "undoRun" /\ hist.key = key /\ hist.redos = 0
        THEN [hist EXCEPT !.undos = @ + 1, !.prev = strokes, !.finished = 0]
        ELSE [NoHist EXCEPT !.op = "undoRun", !.key = key, !.strokes = strokes,
                            !.prev = strokes, !.undos = 1]

\* a redo extends the run of undos it follows, up to as many redos as undos;
\* a redo after undo and commit ends that sequence
ObserveRedo ==
    LET key == StackKey(ActiveFrame.id, ActiveLayer.id)
    IN  IF hist.op = "undoRun" /\ hist.key = key /\ hist.redos < hist.undos
        THEN [hist EXCEPT !.redos = @ + 1, !.finished = 0]
        ELSE IF hist.op = "undoCommit" /\ hist.key = key
        THEN [hist EXCEPT !.op = "undoCommitRedo"]
        ELSE NoHist

\* the project has the frame and the frame has the layer
HasLayer(p, frameId, layerId) ==
    /\ FrameIndexOf(p, frameId) # 0
    /\ LayerIndexOf(p.frames[FrameIndexOf(p, frameId)], layerId) # 0

\* a commit whose frame or layer is not in the project; else
\* a commit on the key of the undo that has just run: strokes becomes the
\* list before that undo without its last stroke, followed by the new stroke
ObserveCommit(c) ==
    IF ~HasLayer(project, c.frameId, c.layerId)
    THEN [NoHist EXCEPT !.op = "commitMissing", !.key = StackKey(c.frameId, c.layerId)]
    ELSE IF hist.op = "undoRun" /\ hist.redos = 0 /\ hist.key = StackKey(c.frameId, c.layerId)
    THEN [NoHist EXCEPT !.op = "undoCommit", !.key = hist.key,
                        !.strokes = SubSeq(hist.prev, 1, Len(hist.prev) - 1)
                                    \o <<c.stroke>>]
    ELSE NoHist

\* the end of a gesture changes no stroke list; finished is the number of
\* coordinates of the draft the gesture ends with
ObserveFinish(points) ==
    [(IF hist.op = "undoRun" /\ hist.redos = 0 THEN hist ELSE NoHist)
        EXCEPT !.finished = Len(points), !.call = "",
               !.target = StackKey(NullId, NullId)]

\* a call of handleCommitStroke, handleUndoStroke or handleRedoStroke and the
\* key it was made for
ObserveCall(h, call, key) == [h EXCEPT !.call = call, !.target = key]

\* the call names the only layer of a frame it applies to
TargetsSoleLayer(frameId, layerId, scope, layerName) ==
    \E i \in 1..Len(project.frames) :
        LET frame == project.frames[i]
        IN  /\ Len(frame.layers) = 1
            /\ scope = "frame" => frame.id = frameId
            /\ \/ frame.layers[1].id = layerId
               \/ scope = "all" /\ layerName # <<>> /\ frame.layers[1].name = layerName

\* the call removes a layer that is the active layer of its frame
RemovesActiveLayer(frameId, layerId, scope, layerName) ==
    \E i \in 1..Len(project.frames) :
        LET frame == project.frames[i]
            layerIndex == IF scope = "all" THEN MatchAll(frame, layerId, layerName)
                          ELSE IF frame.id = frameId THEN MatchFrame(frame, layerId)
                          ELSE 0
        IN  /\ layerIndex # 0
            /\ frame.layers[layerIndex].id = frame.activeLayerId

\* a delete of layers: its scope, how many layers it removed, whether it
\* named the only layer of a frame, whether it removed an active layer
ObserveDeleteLayer(op, scope, sole, wasActive, after) ==
    [NoHist EXCEPT !.op = op, !.scope = scope, !.sole = sole, !.wasActive = wasActive,
                   !.removed = SumLayers(project.frames) - SumLayers(after.frames)]

ObserveDeleteFrame(frameId) ==
    [NoHist EXCEPT !.op = "deleteFrame",
                   !.index = FrameIndexOf(project, frameId),
                   !.count = Len(project.frames),
                   !.wasActive = (frameId = activeFrameId)]

ObserveInsertFrame(frameId, direction) ==
    [NoHist EXCEPT !.op = "insertFrame", !.scope = direction,
                   !.index = FrameIndexOf(project, frameId),
                   !.count = Len(project.frames)]

\* two applications of one image to all frames, one right after the other
ObserveApplyImage(dataUrl, scope) ==
    IF scope # "all" THEN [NoHist EXCEPT !.op = "applyFrame", !.url = dataUrl]
    ELSE IF hist.op \in {"applyAll", "applyAllTwice"} /\ hist.url = dataUrl
    THEN [NoHist EXCEPT !.op = "applyAllTwice", !.url = dataUrl]
    ELSE [NoHist EXCEPT !.op = "applyAll", !.url = dataUrl]

\* a step of handleVideoSelected: `before` keeps the project and the active
\* frame of the call while the steps of the import follow one another
ObserveImport(op) ==
    IF op = "importStarted"
    THEN [NoHist EXCEPT !.op = op, !.before = <<project, activeFrameId>>]
    ELSE IF hist.op \in {"importStarted", "importDecoded"}
    THEN [hist EXCEPT !.op = op]
    ELSE NoHist

-----------------------------------------------------------------------------
(* The end of the asynchronous handlers *)

LeftAsItIs == isProcessing

\* finally { setIsProcessing(false) }: what isProcessing is once a handler
\* has ended, by its return, by its catch or by its break on a cancel
AfterFinally == FALSE

-----------------------------------------------------------------------------
(* handleCreateBlankCanvas, up to and after its await saveProject *)

CreateBlankCanvas(backgroundColor) ==
    /\ ~hasProject /\ ~isProcessing
    /\ blankCanvas.pc = "idle"
    /\ CanDraw(2)
    /\ LET frame == createBlankCanvasFrame(backgroundColor, nextId, nextId + 1)
       IN  /\ project' = MakeProject(UntitledProject, backgroundColor, <<frame>>,
                                     Undefined, now)
           /\ activeFrameId' = frame.id
    /\ isProcessing' = TRUE
    /\ nextId' = nextId + 2
    /\ blankCanvas' = [pc |-> "saving"]
    /\ SavesAndWaits(project', "blankCanvas")
    /\ UNCHANGED <<redoStacks, World, pendingCommits, autoTrace, autoTraceCancelled,
                   videoImport, movieExport, clearing>>
    /\ hist' = NoHist

BlankCanvasSaved ==
    /\ blankCanvas.pc = "saving"
    /\ isProcessing' = AfterFinally
    /\ blankCanvas' = IdleTask
    /\ Awaited("blankCanvas")
    /\ UNCHANGED <<project, activeFrameId, redoStacks, nextId, World, pendingCommits,
                   autoTrace, autoTraceCancelled, videoImport, movieExport, clearing>>
    /\ hist' = NoHist

-----------------------------------------------------------------------------
(* handleVideoSelected: the call, the decode, and the end after saveProject *)

\* ffmpegInstance.writeFile, and exec with the output 'frame_%04d.png': the
\* files numbered from `first` are written, over the files of these names
WriteFrameFiles(files, first, written) ==
    [n \in DOMAIN files \cup first..(first + Len(written) - 1) |->
        IF n \in first..(first + Len(written) - 1) THEN written[n - first + 1]
        ELSE files[n]]

\* ffmpegInstance.deleteFile for the files numbered in `numbers`
DeleteFrameFiles(files, numbers) ==
    [n \in DOMAIN files \ numbers |-> files[n]]

\* handleVideoSelected: listDir('/') filtered to 'frame_*.png' and sorted, as
\* the files' images in the order of their names
RECURSIVE ListFrameFiles(_)
ListFrameFiles(files) ==
    IF DOMAIN files = {} THEN <<>>
    ELSE LET first == CHOOSE n \in DOMAIN files : \A m \in DOMAIN files : n <= m
         IN  <<files[first]>> \o ListFrameFiles(DeleteFrameFiles(files, {first}))

\* the frames ffmpeg decodes from a video: its images scaled to 720 wide
DecodedFiles(contents, height) ==
    [k \in 1..Len(contents) |-> [content |-> contents[k], height |-> height]]

\* composeFrames over the files listed, then the forEach of
\* handleVideoSelected that puts the video layer first and makes imageUrl the
\* background image
ImportedFrames(listed, backgroundColor, firstId) ==
    LET n == Len(listed)
    IN  [k \in 1..n |->
            LET baseLayer == createLayer(firstId + 2 * (k - 1), LayerName(1))
                videoLayer == [createLayer(firstId + 2 * n + (k - 1), VideoLayerName)
                                  EXCEPT !.imageUrl = FrameDataUrl(listed[k].content),
                                         !.visible = TRUE]
            IN  [id |-> firstId + 2 * (k - 1) + 1,
                 frameNumber |-> k - 1,
                 imageUrl |-> createBackgroundImage(backgroundColor, CanvasWidth,
                                                    listed[k].height),
                 layers |-> <<videoLayer, baseLayer>>,
                 activeLayerId |-> baseLayer.id,
                 width |-> CanvasWidth,
                 height |-> listed[k].height]]

VideoSelected ==
    /\ videoImport.pc = "idle"
    /\ (~hasProject /\ ~isProcessing) \/ HasActiveFrame
    /\ isProcessing' = TRUE
    /\ videoImport' = [pc |-> "decoding",
                       backgroundColor |-> project.backgroundColor,
                       name |-> project.name]
    /\ UNCHANGED <<project, activeFrameId, redoStacks, nextId, World, Store,
                   pendingCommits, autoTrace, autoTraceCancelled, blankCanvas,
                   movieExport, clearing>>
    /\ hist' = ObserveImport("importStarted")

VideoDecoded(contents, height, audioUrl) ==
    /\ videoImport.pc = "decoding"
    /\ Len(contents) > 0
    /\ LET listed == ListFrameFiles(WriteFrameFiles(frameFiles, 1,
                                                    DecodedFiles(contents, height)))
           backgroundColor ==
               IF videoImport.backgroundColor = Undefined THEN WhiteBackground
               ELSE videoImport.backgroundColor
           name == IF videoImport.name = Undefined THEN UntitledProject
                   ELSE videoImport.name
           frames == ImportedFrames(listed, backgroundColor, nextId)
       IN  /\ CanDraw(3 * Len(listed))
           /\ project' = MakeProject(name, backgroundColor, frames, audioUrl, now)
           /\ activeFrameId' = frames[1].id
           /\ nextId' = nextId + 3 * Len(listed)
    /\ frameFiles' = NoFrameFiles
    /\ videoImport' = [pc |-> "saving"]
    /\ SavesAndWaits(project', "videoImport")
    /\ UNCHANGED <<redoStacks, isProcessing, now, idLimit, storeAvailable, playback,
                   pendingCommits, autoTrace, autoTraceCancelled, blankCanvas,
                   movieExport, clearing>>
    /\ hist' = ObserveImport("importDecoded")

ImportThrowsAnywhere(pc) == pc \in {"decoding", "saving"}

\* the steps of handleVideoSelected that can throw all come before
\* setProject; the await saveProject that follows it catches its own errors
ImportThrowsAt(pc) == pc = "decoding"

\* a step of the import throws (the engine fails to load, no frame is
\* produced, a read fails): catch, then finally
VideoFailed ==
    /\ ImportThrowsAt(videoImport.pc)
    /\ isProcessing' = AfterFinally
    /\ videoImport' = IdleTask
    /\ UNCHANGED <<project, activeFrameId, redoStacks, nextId, World, Store,
                   pendingCommits, autoTrace, autoTraceCancelled, blankCanvas,
                   movieExport, clearing>>
    /\ hist' = ObserveImport("importFailed")

VideoSaved ==
    /\ videoImport.pc = "saving"
    /\ isProcessing' = AfterFinally
    /\ videoImport' = IdleTask
    /\ Awaited("videoImport")
    /\ UNCHANGED <<project, activeFrameId, redoStacks, nextId, World, pendingCommits,
                   autoTrace, autoTraceCancelled, blankCanvas, movieExport, clearing>>
    /\ hist' = NoHist

-----------------------------------------------------------------------------
(* MovieGenerator (the dialog) and handleMovieGenerate: the call, the      *)
(* canvas of each frame, and the end after the encoder has run             *)

LayerNames(layers) == {layers[j].name : j \in 1..Len(layers)}

\* MovieGenerator: allLayers keeps the first layer of each name across the
\* frames, and the effect sets settings[layer.name] = layer.visible
InitialSettings(frames) ==
    LET all == AllLayers(frames)
        first(name) == CHOOSE j \in 1..Len(all) :
                          /\ all[j].name = name
                          /\ \A h \in 1..(j - 1) : all[h].name # name
    IN  [name \in LayerNames(all) |-> all[first(name)].visible]

\* handleLayerToggle, for each name of `toggled`
ToggledSettings(settings, toggled) ==
    [name \in DOMAIN settings |->
        IF name \in toggled THEN ~settings[name] ELSE settings[name]]

\* handleGenerate with applyCurrentSettings: the layers of frames[0], the
\* last layer of a name deciding
CurrentSettings(frames) ==
    LET layers == frames[1].layers
        last(name) == CHOOSE j \in 1..Len(layers) :
                         /\ layers[j].name = name
                         /\ \A h \in (j + 1)..Len(layers) : layers[h].name # name
    IN  [name \in LayerNames(layers) |-> layers[last(name)].visible]

\* handleGenerate
GenerateSettings(frames, toggled, applyCurrentSettings) ==
    IF applyCurrentSettings
    THEN IF Len(frames) > 0 THEN CurrentSettings(frames) ELSE <<>>
    ELSE ToggledSettings(InitialSettings(frames), toggled)

IsVisibleByFlag(layer, layerSettings) == layer.visible

\* handleMovieGenerate: layerSettings[layer.name] ?? layer.visible
IsVisibleInExport(layer, layerSettings) ==
    IF layer.name \in DOMAIN layerSettings
    THEN layerSettings[layer.name]
    ELSE layer.visible

\* handleMovieGenerate: the canvas of one frame.  It is filled with white,
\* then each visible layer is drawn, its image first and its strokes next;
\* frame.imageUrl is not drawn.
RenderFrame(frame, layerSettings) ==
    [fill |-> WhiteBackground,
     painted |-> {j \in 1..Len(frame.layers) :
                     IsVisibleInExport(frame.layers[j], layerSettings)},
     images |-> {frame.layers[j].imageUrl : j \in
                   {h \in 1..Len(frame.layers) :
                       /\ IsVisibleInExport(frame.layers[h], layerSettings)
                       /\ frame.layers[h].imageUrl # NoUrl}}]

\* the Generate button of the dialog, then handleMovieGenerate up to its
\* first await
MovieGenerate(toggled, applyCurrentSettings) ==
    /\ movieExport.pc = "idle"
    /\ hasProject
    /\ toggled \subseteq LayerNames(AllLayers(project.frames))
    /\ applyCurrentSettings => toggled = {}
    /\ isProcessing' = TRUE
    /\ movieExport' = [pc |-> "rendering",
                       frames |-> project.frames,
                       layerSettings |-> GenerateSettings(project.frames, toggled,
                                                          applyCurrentSettings),
                       rasters |-> <<>>]
    /\ UNCHANGED <<project, activeFrameId, redoStacks, nextId, World, Store,
                   pendingCommits, autoTrace, autoTraceCancelled, videoImport,
                   blankCanvas, clearing>>
    /\ hist' = NoHist

\* one turn of the loop over project.frames: the canvas is written to the
\* encoder's file system
FrameRendered ==
    /\ movieExport.pc = "rendering"
    /\ Len(movieExport.rasters) < Len(movieExport.frames)
    /\ LET frame == movieExport.frames[Len(movieExport.rasters) + 1]
       IN  movieExport' =
              [movieExport EXCEPT
                  !.rasters = Append(@, RenderFrame(frame, movieExport.layerSettings))]
           /\ frameFiles' = WriteFrameFiles(frameFiles, Len(movieExport.rasters),
                                           <<[content |-> "canvas",
                                              height |-> frame.height]>>)
    /\ UNCHANGED <<project, activeFrameId, redoStacks, isProcessing, nextId, now,
                   idLimit, storeAvailable, playback, Store, pendingCommits, autoTrace,
                   autoTraceCancelled, videoImport, blankCanvas, clearing>>
    /\ hist' = NoHist

\* the encoder has run, the file is downloaded and the files in
\* frameFileNames are deleted: finally
MovieEncoded ==
    /\ movieExport.pc = "rendering"
    /\ Len(movieExport.rasters) = Len(movieExport.frames)
    /\ isProcessing' = AfterFinally
    /\ movieExport' = IdleTask
    /\ frameFiles' = DeleteFrameFiles(frameFiles, 0..(Len(movieExport.frames) - 1))
    /\ UNCHANGED <<project, activeFrameId, redoStacks, nextId, now, idLimit,
                   storeAvailable, playback, Store, pendingCommits, autoTrace,
                   autoTraceCancelled, videoImport, blankCanvas, clearing>>
    /\ hist' = NoHist

\* a step of the export throws (the engine fails to load, an image fails to
\* load, the encoder fails): catch, then finally; the clean-up of the frame
\* files is the last step of the try block and is not reached
MovieFailed ==
    /\ movieExport.pc = "rendering"
    /\ isProcessing' = AfterFinally
    /\ movieExport' = IdleTask
    /\ UNCHANGED <<project, activeFrameId, redoStacks, nextId, World, Store,
                   pendingCommits, autoTrace, autoTraceCancelled, videoImport,
                   blankCanvas, clearing>>
    /\ hist' = NoHist

-----------------------------------------------------------------------------
(* Strokes: StageEditor.finishStroke, handleCommitStroke, undo and redo *)

IsCommittedFromOnePair(points) == Len(points) >= 2

\* finishStroke: stroke.points.length > 2
IsCommitted(points) == Len(points) > 2

\* finishStroke: the gesture ends; a stroke of more than one coordinate pair
\* is committed on the next animation frame
FinishStroke(points) ==
    /\ HasActiveFrame
    /\ CanDraw(1)
    /\ Len(pendingCommits) < MaxPending
    /\ HasActiveLayer => Len(ActiveLayer.strokes) < MaxStrokes
    /\ nextId' = nextId + 1
    /\ pendingCommits' =
          IF IsCommitted(points)
          THEN Append(pendingCommits,
                      [frameId |-> ActiveFrame.id,
                       layerId |-> ActiveFrame.activeLayerId,
                       stroke |-> Stroke(nextId, points)])
          ELSE pendingCommits
    /\ UNCHANGED <<project, activeFrameId, redoStacks, isProcessing, World, Store, Tasks>>
    /\ hist' = ObserveFinish(points)

\* the animation frame runs commit(): handleCommitStroke
CommitStroke ==
    /\ pendingCommits # <<>>
    /\ LET c == Head(pendingCommits)
       IN  /\ project' = CommitStrokeUpdater(project, c.frameId, c.layerId, c.stroke, now)
           /\ redoStacks' = CommitRedoUpdater(redoStacks, StackKey(c.frameId, c.layerId))
    /\ pendingCommits' = Tail(pendingCommits)
    /\ Saves(IF project.isNull THEN <<>> ELSE <<project'>>)
    /\ UNCHANGED <<activeFrameId, isProcessing, nextId, World, Tasks>>
    /\ hist' = ObserveCall(ObserveCommit(Head(pendingCommits)), "commit",
                           StackKey(Head(pendingCommits).frameId,
                                    Head(pendingCommits).layerId))

\* handleUndoStroke.  removedStroke is assigned inside the setProject updater
\* and read right after setProject returns: the handler sees it only when the
\* updater ran at the call (eager) and not at the next render
UndoStroke(eager) ==
    /\ HasActiveFrame /\ HasActiveLayer
    /\ LET frameId == ActiveFrame.id
           layerId == ActiveLayer.id
           stackKey == StackKey(frameId, layerId)
           removedStroke == IF eager THEN UndoRemoved(project, frameId, layerId)
                            ELSE <<>>
       IN  /\ project' = UndoUpdater(project, frameId, layerId, now)
           /\ redoStacks' =
                 IF removedStroke # <<>>
                 THEN SetKey(redoStacks, stackKey,
                             StackOf(redoStacks, stackKey) \o removedStroke)
                 ELSE redoStacks
           /\ Saves(IF UndoRemoved(project, frameId, layerId) = <<>> THEN <<>>
                    ELSE <<project'>>)
    /\ UNCHANGED <<activeFrameId, isProcessing, nextId, World, pendingCommits, Tasks>>
    /\ hist' = ObserveCall(ObserveUndo, "undo", StackKey(ActiveFrame.id, ActiveLayer.id))

\* handleRedoStroke.  strokeToRestore is assigned inside the setRedoStacks
\* updater and read right after setRedoStacks returns: when the updater runs
\* at the next render the handler has returned at `if (!strokeToRestore)`
RedoStroke(eager) ==
    /\ HasActiveFrame /\ HasActiveLayer
    /\ LET frameId == ActiveFrame.id
           layerId == ActiveLayer.id
           stackKey == StackKey(frameId, layerId)
           stack == StackOf(redoStacks, stackKey)
       IN  IF Len(stack) = 0
           THEN UNCHANGED <<project, redoStacks, Store>>
           ELSE /\ redoStacks' = SetKey(redoStacks, stackKey, RedoRest(stack))
                /\ project' =
                      IF eager
                      THEN RedoUpdater(project, frameId, layerId, RedoTop(stack), now)
                      ELSE project
                /\ Saves(IF eager THEN <<project'>> ELSE <<>>)
    /\ UNCHANGED <<activeFrameId, isProcessing, nextId, World, pendingCommits, Tasks>>
    /\ hist' = ObserveCall(ObserveRedo, "redo", StackKey(ActiveFrame.id, ActiveLayer.id))

-----------------------------------------------------------------------------
(* Layers *)

\* handleAddLayer
AddLayer ==
    /\ HasActiveFrame
    /\ CanDraw(1)
    /\ Len(ActiveFrame.layers) < MaxLayers
    /\ project' = AddLayerUpdater(project, activeFrameId, nextId, now)
    /\ nextId' = nextId + 1
    /\ Saves(<<project'>>)
    /\ UNCHANGED <<activeFrameId, redoStacks, isProcessing, World, pendingCommits, Tasks>>
    /\ hist' = NoHist

\* handleSelectLayer, called from a row of the layer panel
SelectLayer(layerId) ==
    /\ HasActiveFrame
    /\ layerId \in LayerIds(ActiveFrame)
    /\ project' = SelectLayerUpdater(project, activeFrameId, layerId, now)
    /\ Saves(IF ActiveFrame.activeLayerId = layerId THEN <<>> ELSE <<project'>>)
    /\ UNCHANGED <<activeFrameId, redoStacks, isProcessing, nextId, World,
                   pendingCommits, Tasks>>
    /\ hist' = NoHist

\* handleToggleLayerVisibility, called from a row of the layer panel
ToggleLayerVisibility(layerId) ==
    /\ HasActiveFrame
    /\ layerId \in LayerIds(ActiveFrame)
    /\ project' = ToggleLayerUpdater(project, activeFrameId, layerId, now)
    /\ Saves(<<project'>>)
    /\ UNCHANGED <<activeFrameId, redoStacks, isProcessing, nextId, World,
                   pendingCommits, Tasks>>
    /\ hist' = NoHist

\* handleDeleteLayer(layerId, scope, layerName), one call
DeleteLayer(layerId, scope, layerName, eager) ==
    /\ LET st == handleDeleteLayer([project |-> project, redoStacks |-> redoStacks,
                                    saved |-> <<>>],
                                   activeFrameId, layerId, scope, layerName, now, eager)
       IN  /\ project' = st.project
           /\ redoStacks' = st.redoStacks
           /\ Saves(st.saved)
    /\ UNCHANGED <<activeFrameId, isProcessing, nextId, World, pendingCommits, Tasks>>
    /\ hist' = [ObserveDeleteLayer("deleteLayer", scope,
                                    TargetsSoleLayer(activeFrameId, layerId, scope, layerName),
                                    RemovesActiveLayer(activeFrameId, layerId, scope, layerName),
                                    project')
                   EXCEPT !.layerId = layerId,
                          !.index = IF HasActiveFrame THEN LayerIndexOf(ActiveFrame, layerId)
                                    ELSE 0]

\* the delete button of a row of the layer panel: disabled when the layer is
\* locked, else onDeleteLayer(layer.id, 'frame', layer.name)
DeleteLayerButton(i, eager) ==
    /\ HasActiveFrame
    /\ i \in 1..Len(ActiveFrame.layers)
    /\ ~isProtectedLayer(ActiveFrame.layers[i].name)
    /\ DeleteLayer(ActiveFrame.layers[i].id, "frame", ActiveFrame.layers[i].name, eager)

\* StageEditor.executeDeleteLayers: the layers of the frame that are ticked
\* and not protected
DeleteTargets(frame, layersToDelete) ==
    SelectSeq(frame.layers,
              LAMBDA layer : layer.id \in layersToDelete /\ ~isProtectedLayer(layer.name))

\* StageEditor.executeDeleteLayers for the set layersToDelete and deleteScope
ExecuteDeleteLayers(layersToDelete, deleteScope, eager) ==
    /\ HasActiveFrame
    /\ layersToDelete # {}
    /\ LET targets == DeleteTargets(ActiveFrame, layersToDelete)
           st == DeleteEach([project |-> project, redoStacks |-> redoStacks,
                             queued |-> FALSE, saved |-> <<>>],
                            activeFrameId, targets, deleteScope, now, eager)
       IN  /\ targets # <<>>
           /\ project' = st.project
           /\ redoStacks' = st.redoStacks
           /\ Saves(st.saved)
    /\ UNCHANGED <<activeFrameId, isProcessing, nextId, World, pendingCommits, Tasks>>
    /\ hist' = ObserveDeleteLayer("executeDeleteLayers", deleteScope, FALSE, FALSE, project')

\* applyImageToFrames(dataUrl, scope), called when the picked file is read
ApplyImage(dataUrl, scope) ==
    /\ HasActiveFrame
    /\ LET lacking == Cardinality(FramesLacking(project.frames, dataUrl))
       IN  /\ CanDraw(lacking)
           /\ \A i \in FramesLacking(project.frames, dataUrl) :
                  Len(project.frames[i].layers) < MaxLayers
           /\ nextId' = nextId + lacking
    /\ project' = ApplyImageUpdater(project, activeFrameId, dataUrl, scope, nextId, now)
    /\ Saves(<<project'>>)
    /\ UNCHANGED <<activeFrameId, redoStacks, isProcessing, World, pendingCommits, Tasks>>
    /\ hist' = ObserveApplyImage(dataUrl, scope)

-----------------------------------------------------------------------------
(* Frames *)

\* FrameTimeline: onSelectFrame(frame.id) is setActiveFrameId
SelectFrame(frameId) ==
    /\ hasProject
    /\ frameId \in FrameIds(project)
    /\ activeFrameId' = frameId
    /\ UNCHANGED <<project, redoStacks, isProcessing, nextId, World, Store,
                   pendingCommits, Tasks>>
    /\ hist' = NoHist

\* handleInsertFrame.  newFrameId is assigned inside the setProject updater
\* and read right after setProject returns: the new frame becomes the active
\* one only when the updater ran at the call (eager)
InsertFrame(frameId, direction, eager) ==
    /\ hasProject
    /\ frameId \in FrameIds(project)
    /\ Len(project.frames) < MaxFrames
    /\ LET drawn == Len(Palette(project.frames)) + 2
       IN  /\ CanDraw(drawn)
           /\ nextId' = nextId + drawn
           /\ activeFrameId' = IF eager THEN nextId + drawn - 1 ELSE activeFrameId
    /\ project' = InsertFrameUpdater(project, frameId, direction, nextId, now)
    /\ Saves(<<project'>>)
    /\ UNCHANGED <<redoStacks, isProcessing, World, pendingCommits, Tasks>>
    /\ hist' = ObserveInsertFrame(frameId, direction)

\* handleDeleteFrame
DeleteFrame(frameId) ==
    /\ hasProject
    /\ frameId \in FrameIds(project)
    /\ project' = DeleteFrameUpdater(project, frameId, now)
    /\ activeFrameId' =
          IF ~DeleteFrameRefused(project, FrameIndexOf(project, frameId))
             /\ frameId = activeFrameId
          THEN LET frames == project'.frames
                   newActiveIndex == NewActiveIndex(FrameIndexOf(project, frameId),
                                                    Len(frames))
               IN  \* frames[newActiveIndex]?.id || null
                   IF newActiveIndex \in 1..Len(frames)
                   THEN frames[newActiveIndex].id
                   ELSE NullId
          ELSE activeFrameId
    /\ Saves(IF DeleteFrameRefused(project, FrameIndexOf(project, frameId)) THEN <<>>
             ELSE <<project'>>)
    /\ UNCHANGED <<redoStacks, isProcessing, nextId, World, pendingCommits, Tasks>>
    /\ hist' = ObserveDeleteFrame(frameId)

\* the delete button of a timeline frame, rendered when frames.length > 1
DeleteFrameButton(frameId) ==
    /\ Len(project.frames) > 1
    /\ DeleteFrame(frameId)

\* handleClearFrame
ClearFrame ==
    /\ HasActiveFrame
    /\ CanDraw(2)
    /\ project' = ClearFrameUpdater(project, activeFrameId, nextId, nextId + 1, now)
    /\ nextId' = nextId + 2
    /\ Saves(<<project'>>)
    /\ UNCHANGED <<activeFrameId, redoStacks, isProcessing, World, pendingCommits, Tasks>>
    /\ hist' = [NoHist EXCEPT !.op = "clearFrame", !.frameId = activeFrameId]

\* confirmClearProject, up to its await clearProject(); the button that opens
\* the dialog is enabled when there is a project
ClearProject ==
    /\ ~project.isNull
    /\ clearing.pc = "idle"
    /\ clearing' = [pc |-> "clearing"]
    /\ SavesAndWaits(NullProject, "clear")
    /\ UNCHANGED <<project, activeFrameId, redoStacks, isProcessing, nextId, World,
                   pendingCommits, autoTrace, autoTraceCancelled, videoImport,
                   blankCanvas, movieExport>>
    /\ hist' = NoHist

\* confirmClearProject, after its await: setProject(null), setActiveFrameId(null).
\* hasProject is now false, App renders the getting-started panels in place
\* of the workspace, and FrameTimeline is unmounted: its cleanup cancels the
\* animation frame
ProjectCleared ==
    /\ clearing.pc = "clearing"
    /\ clearing' = IdleTask
    /\ Awaited("clear")
    /\ project' = NullProject
    /\ activeFrameId' = NullId
    /\ playback' = StoppedPlayback(0)
    /\ UNCHANGED <<redoStacks, isProcessing, nextId, now, idLimit, storeAvailable,
                   frameFiles, pendingCommits, autoTrace, autoTraceCancelled,
                   videoImport, blankCanvas, movieExport>>
    /\ hist' = NoHist

\* FrameTimeline.handlePlay: stop when playing, else start from the active
\* frame; the animate it schedules closes over the frames of this render
handlePlay ==
    /\ hasProject
    /\ playback' =
          IF playback.playing
          THEN StoppedPlayback(playback.last)
          ELSE [playing |-> TRUE,
                frames |-> [i \in 1..Len(project.frames) |-> project.frames[i].id],
                start |-> Max(FrameIndexOf(project, activeFrameId) - 1, 0),
                offset |-> -1,
                last |-> playback.last]
    /\ UNCHANGED <<project, activeFrameId, redoStacks, isProcessing, nextId, now, idLimit,
                   storeAvailable, frameFiles, Store, pendingCommits, Tasks>>
    /\ hist' = NoHist

\* animate's targetFrameIndex for a frameOffset, zero-based
TargetFrameIndex(offset) == (playback.start + offset) % Len(playback.frames)

\* FrameTimeline.animate, called by the animation frame with a timestamp
\* that is frameOffset frame durations after startTimeRef.current (which the
\* first call sets to its timestamp); it calls onSelectFrame, which is
\* setActiveFrameId, and schedules itself again
animate(frameOffset) ==
    /\ playback.playing
    /\ IF playback.offset = -1 THEN frameOffset = 0 ELSE frameOffset >= playback.offset
    /\ LET targetFrameIndex == TargetFrameIndex(frameOffset)
           selects == targetFrameIndex + 1 # playback.last
           loops == targetFrameIndex >= Len(playback.frames) - 1 /\ frameOffset > 0
       IN  /\ activeFrameId' = IF selects THEN playback.frames[targetFrameIndex + 1]
                                ELSE activeFrameId
           /\ playback' =
                 IF loops
                 THEN [playback EXCEPT !.start = 0, !.offset = 0, !.last = 0]
                 ELSE [playback EXCEPT !.offset = frameOffset,
                                       !.last = IF selects THEN targetFrameIndex + 1 ELSE @]
    /\ UNCHANGED <<project, redoStacks, isProcessing, nextId, now, idLimit,
                   storeAvailable, frameFiles, Store, pendingCommits, Tasks>>
    /\ hist' = NoHist

\* a write that no handler awaits completes
StoreWritten ==
    /\ Awaited("none")
    /\ storeAvailable
    /\ UNCHANGED <<project, activeFrameId, redoStacks, isProcessing, nextId, World,
                   pendingCommits, Tasks>>
    /\ hist' = NoHist

-----------------------------------------------------------------------------
(* handleAutoTrace: the call, the return of each generateOutlineMask, the end *)

\* the first visible layer with an image, as a sequence of zero or one url
SourceImage(frame) ==
    LET i == FindIndex({j \in 1..Len(frame.layers) :
                           frame.layers[j].visible /\ frame.layers[j].imageUrl # NoUrl})
    IN  IF i = 0 THEN <<>> ELSE <<frame.layers[i].imageUrl>>

hasExistingAutoTrace(frame) ==
    \E i \in 1..Len(frame.layers) : startsWith(frame.layers[i].name, AutoTracePrefix)

\* the frame handleAutoTrace pushes once generateOutlineMask has returned
TracedFrame(frame, outlineUrl, layerId) ==
    IF hasExistingAutoTrace(frame) THEN frame
    ELSE [frame EXCEPT !.layers =
            Append(frame.layers,
                   [createLayer(layerId, AutoTraceName) EXCEPT
                       !.imageUrl = outlineUrl, !.visible = TRUE])]

\* the loop from iteration i (1-based) to its next await or its end: frames
\* without a source image are pushed as they are
RECURSIVE RunTrace(_, _, _, _)
RunTrace(frames, i, updatedFrames, cancelled) ==
    IF i > Len(frames) \/ cancelled
    THEN [pc |-> "finishing", updatedFrames |-> updatedFrames]
    ELSE IF SourceImage(frames[i]) = <<>>
    THEN RunTrace(frames, i + 1, Append(updatedFrames, frames[i]), cancelled)
    ELSE [pc |-> "awaiting", i |-> i, updatedFrames |-> updatedFrames]

\* after the loop: !autoTraceCancelledRef.current && updatedFrames.length > 0
TraceApplied(updatedFrames, cancelled) == ~cancelled /\ Len(updatedFrames) > 0

\* after the loop: setProject, unless cancelled or nothing was collected
TraceResult(current, updatedFrames, cancelled, t) ==
    IF TraceApplied(updatedFrames, cancelled)
    THEN FramesOnly(updatedFrames, t)
    ELSE current

\* the loop of handleAutoTrace has ended: the frames it was called with and
\* the frames it has pushed
ObserveTrace(frames, updatedFrames, cancelled) ==
    [NoHist EXCEPT !.op = IF cancelled THEN "traceCancelled" ELSE "traceEnded",
                   !.captured = frames,
                   !.collected = updatedFrames,
                   !.count = IF hist.op = "cancel" THEN hist.count ELSE 0]

\* handleCancelAutoTrace has run: how many of the frames pushed so far have
\* got a trace layer
ObserveCancel ==
    [NoHist EXCEPT !.op = "cancel",
                   !.count = Cardinality(
                       {i \in 1..Len(autoTrace.updatedFrames) :
                           Len(autoTrace.updatedFrames[i].layers)
                               > Len(autoTrace.frames[i].layers)})]

\* the task goes on from iteration i with the frames collected so far
TraceContinues(frames, i, updatedFrames) ==
    LET r == RunTrace(frames, i, updatedFrames, autoTraceCancelled')
    IN  IF r.pc = "awaiting"
        THEN /\ autoTrace' = [pc |-> "awaiting", frames |-> frames, i |-> r.i,
                              updatedFrames |-> r.updatedFrames]
             /\ isProcessing' = TRUE
             /\ project' = project
             /\ activeFrameId' = activeFrameId
             /\ UNCHANGED Store
             /\ hist' = NoHist
        ELSE /\ autoTrace' = IdleTask
             /\ isProcessing' = AfterFinally
             /\ project' = TraceResult(project, r.updatedFrames, autoTraceCancelled', now)
             /\ activeFrameId' = SelectFirstFrameEffect(project', activeFrameId)
             /\ Saves(IF TraceApplied(r.updatedFrames, autoTraceCancelled')
                      THEN <<project'>> ELSE <<>>)
             /\ hist' = ObserveTrace(frames, r.updatedFrames, autoTraceCancelled')

AutoTrace ==
    /\ autoTrace.pc = "idle"
    /\ hasProject
    /\ autoTraceCancelled' = FALSE
    /\ TraceContinues(project.frames, 1, <<>>)
    /\ UNCHANGED <<redoStacks, nextId, World, pendingCommits, videoImport, blankCanvas,
                   movieExport, clearing>>

\* generateOutlineMask returns for frame i of the captured project
OutlineReturned ==
    /\ autoTrace.pc = "awaiting"
    /\ LET frame == autoTrace.frames[autoTrace.i]
           used == IF hasExistingAutoTrace(frame) THEN 0 ELSE 1
           traced == TracedFrame(frame, OutlineDataUrl(SourceImage(frame)[1]), nextId)
       IN  /\ CanDraw(used)
           /\ nextId' = nextId + used
           /\ autoTraceCancelled' = autoTraceCancelled
           /\ TraceContinues(autoTrace.frames, autoTrace.i + 1,
                             Append(autoTrace.updatedFrames, traced))
    /\ UNCHANGED <<redoStacks, World, pendingCommits, videoImport, blankCanvas,
                   movieExport, clearing>>

\* generateOutlineMask throws: catch, then finally
OutlineFailed ==
    /\ autoTrace.pc = "awaiting"
    /\ autoTrace' = IdleTask
    /\ isProcessing' = AfterFinally
    /\ UNCHANGED <<project, activeFrameId, redoStacks, nextId, World, Store,
                   pendingCommits, autoTraceCancelled, videoImport, blankCanvas,
                   movieExport, clearing>>
    /\ hist' = NoHist

\* handleCancelAutoTrace, from the overlay shown while the trace runs
CancelAutoTrace ==
    /\ autoTrace.pc = "awaiting"
    /\ isProcessing
    /\ autoTraceCancelled' = TRUE
    /\ UNCHANGED <<project, activeFrameId, redoStacks, isProcessing, nextId, World,
                   Store, pendingCommits, autoTrace, videoImport, blankCanvas,
                   movieExport, clearing>>
    /\ hist' = ObserveCancel

-----------------------------------------------------------------------------
(* What the user and the environment may choose *)

Scopes == {"frame", "all"}
Directions == {"left", "right"}
\* the audio track extracted from a video, if it has one
AudioChoices == {"audio.mp3"}
\* the frames a video decodes to
DecodedVideos == UNION {[1..n -> FrameContents] : n \in 1..MaxDecoded}
PickedImages == {ImageDataUrl(file) : file \in ImageFiles}
\* one image and the videos of one and of two frames, for the specifications
\* of the handlers and of the controls
OneImage == {ImageDataUrl("a.png")}
TwoVideos == {<<"shot1">>, <<"shot1", "shot2">>}
OneVideo == {<<"shot1">>}

AllLayerIds(p) == {AllLayers(p.frames)[i].id : i \in 1..Len(AllLayers(p.frames))}
NameOfLayer(p, layerId) ==
    LET layers == AllLayers(p.frames)
    IN  layers[FindIndex({k \in 1..Len(layers) : layers[k].id = layerId})].name

\* StageEditor.handleUndoClick, handleRedoClick: if (!canUndo) return
UndoClick(eager) == canUndo /\ UndoStroke(eager)
RedoClick(eager) == canRedo /\ RedoStroke(eager)

\* StageEditor.toggleLayerForDeletion: the sets of layers the user can tick in
\* the delete dialog; a tick on a protected layer is ignored
Tickable ==
    IF HasActiveFrame
    THEN SUBSET {ActiveFrame.layers[i].id : i \in
                    {j \in 1..Len(ActiveFrame.layers) :
                        ~isProtectedLayer(ActiveFrame.layers[j].name)}}
    ELSE {}

\* neither the processing overlay nor the dialog of confirmClearProject is
\* shown: the controls of the workspace and of the getting-started panels
\* can be reached with the pointer
Idle == ~isProcessing /\ clearing.pc = "idle"

\* the asynchronous handlers the user starts
Starts ==
    \/ Idle /\ \E backgroundColor \in BackgroundChoices : CreateBlankCanvas(backgroundColor)
    \/ Idle /\ VideoSelected
    \/ Idle /\ AutoTrace

\* what happens without the user: the awaited calls return or throw
Returns(videos) ==
    \/ BlankCanvasSaved
    \/ \E contents \in videos, height \in VideoHeights, audioUrl \in AudioChoices :
          VideoDecoded(contents, height, audioUrl)
    \/ VideoFailed
    \/ VideoSaved
    \/ OutlineReturned
    \/ OutlineFailed

Layers(images) ==
    \/ Idle /\ AddLayer
    \/ Idle /\ \E layerId \in 1..MaxIds : SelectLayer(layerId)
    \/ Idle /\ \E dataUrl \in images, scope \in Scopes : ApplyImage(dataUrl, scope)

Visibility == Idle /\ \E layerId \in 1..MaxIds : ToggleLayerVisibility(layerId)

Frames ==
    \/ Idle /\ \E frameId \in 1..MaxIds : SelectFrame(frameId)
    \/ Idle /\ \E frameId \in 1..MaxIds, direction \in Directions, eager \in BOOLEAN :
                  InsertFrame(frameId, direction, eager)
    \/ Idle /\ ClearFrame
    \/ Idle /\ ClearProject
    \/ ProjectCleared

\* the delete controls of StageEditor and FrameTimeline, when enabled
DeleteControls ==
    \/ Idle /\ \E i \in 1..(MaxLayers + 1), eager \in BOOLEAN : DeleteLayerButton(i, eager)
    \/ Idle /\ \E layersToDelete \in Tickable, deleteScope \in Scopes, eager \in BOOLEAN :
                  ExecuteDeleteLayers(layersToDelete, deleteScope, eager)
    \/ Idle /\ \E frameId \in 1..MaxIds : DeleteFrameButton(frameId)

\* handleDeleteLayer called for any layer of the project, with its name or
\* without a name, and handleDeleteFrame called for any frame, whether or not
\* a control is enabled
DeleteHandlers ==
    \/ Idle /\ \E layerId \in AllLayerIds(project), scope \in Scopes, named \in BOOLEAN,
                  eager \in BOOLEAN :
                  DeleteLayer(layerId, scope,
                              IF named THEN NameOfLayer(project, layerId) ELSE <<>>, eager)
    \/ Idle /\ \E frameId \in 1..MaxIds : DeleteFrame(frameId)

-----------------------------------------------------------------------------
(* Specifications *)

\* drawing on a blank canvas: strokes, undo and redo on the layers of a frame;
\* handleUndoStroke and handleRedoStroke are called whether or not the
\* buttons are enabled
InitStrokes == Start(IdsStrokes)

NextStrokes ==
    \/ BlankCanvasSaved
    \/ CommitStroke
    \/ Idle /\ \E backgroundColor \in BackgroundChoices : CreateBlankCanvas(backgroundColor)
    \/ Idle /\ \E points \in DraftPoints : FinishStroke(points)
    \/ Idle /\ \E eager \in BOOLEAN : UndoStroke(eager)
    \/ Idle /\ \E eager \in BOOLEAN : RedoStroke(eager)
    \/ Idle /\ AddLayer
    \/ Idle /\ \E layerId \in 1..MaxIds : SelectLayer(layerId)

SpecStrokes == InitStrokes /\ [][NextStrokes]_vars

\* the handlers of layers and frames, called with any layer and any frame of
\* the project
InitHandlers == Start(IdsHandlers)

NextHandlers ==
    \/ Returns(TwoVideos)
    \/ CancelAutoTrace
    \/ Starts
    \/ Layers(OneImage)
    \/ Frames
    \/ DeleteHandlers

SpecHandlers == InitHandlers /\ [][NextHandlers]_vars

\* frames and the image layers on them: ingestion, images, insert, delete
\* and clear of frames
InitFrames == Start(MaxIds)

NextFrames ==
    \/ BlankCanvasSaved
    \/ \E contents \in DecodedVideos, height \in VideoHeights, audioUrl \in AudioChoices :
          VideoDecoded(contents, height, audioUrl)
    \/ VideoSaved
    \/ Idle /\ \E backgroundColor \in BackgroundChoices : CreateBlankCanvas(backgroundColor)
    \/ Idle /\ VideoSelected
    \/ Idle /\ \E dataUrl \in PickedImages, scope \in Scopes : ApplyImage(dataUrl, scope)
    \/ Idle /\ \E frameId \in 1..MaxIds : SelectFrame(frameId)
    \/ Idle /\ \E frameId \in 1..MaxIds, direction \in Directions, eager \in BOOLEAN :
                  InsertFrame(frameId, direction, eager)
    \/ Idle /\ \E frameId \in 1..MaxIds : DeleteFrame(frameId)
    \/ Idle /\ ClearFrame

SpecFrames == InitFrames /\ [][NextFrames]_vars

\* drawing with the controls of the workspace: strokes, undo and redo, and
\* the delete controls of layers and frames
InitDrawing == Start(IdsDrawing)

NextDrawing ==
    \/ BlankCanvasSaved
    \/ CommitStroke
    \/ Idle /\ \E backgroundColor \in BackgroundChoices : CreateBlankCanvas(backgroundColor)
    \/ Idle /\ FinishStroke(<<0, 0, 1, 1>>)
    \/ Idle /\ \E eager \in BOOLEAN : UndoClick(eager)
    \/ Idle /\ \E eager \in BOOLEAN : RedoClick(eager)
    \/ Idle /\ AddLayer
    \/ Idle /\ \E layerId \in 1..MaxIds : SelectLayer(layerId)
    \/ Idle /\ \E frameId \in 1..MaxIds : SelectFrame(frameId)
    \/ Idle /\ \E frameId \in 1..MaxIds, direction \in Directions, eager \in BOOLEAN :
                  InsertFrame(frameId, direction, eager)
    \/ Idle /\ ClearProject
    \/ ProjectCleared
    \/ DeleteControls

SpecDrawing == InitDrawing /\ [][NextDrawing]_vars

\* the controls of the workspace as StageEditor and FrameTimeline enable them
InitExport == Start(IdsExport)

\* the dialog's choices: the names it toggles and applyCurrentSettings
Generates ==
    \E toggled \in SUBSET {VideoLayerName, LayerName(1), LayerName(2)},
       applyCurrentSettings \in BOOLEAN :
       MovieGenerate(toggled, applyCurrentSettings)

NextExport ==
    \/ Idle /\ CreateBlankCanvas(DefaultBackground)
    \/ BlankCanvasSaved
    \/ Idle /\ VideoSelected
    \/ \E contents \in TwoVideos, height \in VideoHeights :
          VideoDecoded(contents, height, Undefined)
    \/ VideoSaved
    \/ Idle /\ AddLayer
    \/ Idle /\ \E frameId \in 1..MaxIds : SelectFrame(frameId)
    \/ Visibility
    \/ Idle /\ Generates
    \/ FrameRendered
    \/ MovieEncoded
    \/ MovieFailed

SpecExport == InitExport /\ [][NextExport]_vars

\* importing a video and tracing its frames, with the overlay's cancel button
InitTrace == Start(IdsTrace)

NextTrace ==
    \/ Idle /\ VideoSelected
    \/ \E contents \in TwoVideos, height \in VideoHeights :
          VideoDecoded(contents, height, Undefined)
    \/ VideoFailed
    \/ VideoSaved
    \/ Idle /\ \E frameId \in 1..MaxIds : SelectFrame(frameId)
    \/ Visibility
    \/ Idle /\ AutoTrace
    \/ OutlineReturned
    \/ OutlineFailed
    \/ CancelAutoTrace

SpecTrace == InitTrace /\ [][NextTrace]_vars

\* the operations that use the engines, started from the keyboard: the
\* buttons Auto Trace, Generate Movie and Add video of the workspace are not
\* disabled while isProcessing holds, the overlay takes no focus, and the
\* handlers do not look at the flag
InitTriggers == Start(IdsTriggers)

NextTriggers ==
    \/ CreateBlankCanvas(DefaultBackground)
    \/ BlankCanvasSaved
    \/ VideoSelected
    \/ \E contents \in OneVideo, height \in VideoHeights :
          VideoDecoded(contents, height, Undefined)
    \/ VideoFailed
    \/ VideoSaved
    \/ AutoTrace
    \/ OutlineReturned
    \/ OutlineFailed
    \/ CancelAutoTrace
    \/ Generates
    \/ FrameRendered
    \/ MovieEncoded
    \/ MovieFailed

SpecTriggers == InitTriggers /\ [][NextTriggers]_vars

\* drawing on a blank canvas and clearing the project, in a run where
\* IndexedDB accepts the writes
InitStorage == StartWith(IdsStorage, TRUE)

NextStorage ==
    \/ Idle /\ CreateBlankCanvas(DefaultBackground)
    \/ BlankCanvasSaved
    \/ StoreWritten
    \/ Idle /\ FinishStroke(<<0, 0, 1, 1>>)
    \/ CommitStroke
    \/ Idle /\ \E eager \in BOOLEAN : UndoClick(eager)
    \/ Idle /\ \E eager \in BOOLEAN : RedoClick(eager)
    \/ Idle /\ AddLayer
    \/ Visibility
    \/ Idle /\ ClearProject
    \/ ProjectCleared

SpecStorage == InitStorage /\ [][NextStorage]_vars

\* the awaited calls return or throw: each promise a handler awaits settles
VideoReturns ==
    \/ \E contents \in OneVideo, height \in VideoHeights :
          VideoDecoded(contents, height, Undefined)
    \/ VideoFailed

OutlineSettles == OutlineReturned \/ OutlineFailed

ExportGoesOn == FrameRendered \/ MovieEncoded \/ MovieFailed

FairTriggers ==
    /\ SpecTriggers
    /\ WF_vars(BlankCanvasSaved)
    /\ WF_vars(VideoReturns)
    /\ WF_vars(VideoSaved)
    /\ WF_vars(OutlineSettles)
    /\ WF_vars(ExportGoesOn)

\* the layers of the frames of a blank canvas: handleDeleteLayer is called
\* for any layer, with its name or without a name
InitLayers == Start(IdsLayers)

NextLayers ==
    \/ Idle /\ CreateBlankCanvas(DefaultBackground)
    \/ BlankCanvasSaved
    \/ Idle /\ AddLayer
    \/ Idle /\ \E layerId \in 1..MaxIds : SelectLayer(layerId)
    \/ Idle /\ \E frameId \in 1..MaxIds : SelectFrame(frameId)
    \/ Idle /\ \E frameId \in 1..MaxIds, direction \in Directions, eager \in BOOLEAN :
                  InsertFrame(frameId, direction, eager)
    \/ Idle /\ \E layerId \in AllLayerIds(project), scope \in Scopes, named \in BOOLEAN,
                  eager \in BOOLEAN :
                  DeleteLayer(layerId, scope,
                              IF named THEN NameOfLayer(project, layerId) ELSE <<>>, eager)

SpecLayers == InitLayers /\ [][NextLayers]_vars

\* the timeline of a blank canvas: selecting, inserting and deleting frames
\* while FrameTimeline plays or not
InitTimeline == Start(IdsTimeline)

NextTimeline ==
    \/ Idle /\ CreateBlankCanvas(DefaultBackground)
    \/ BlankCanvasSaved
    \/ Idle /\ \E frameId \in 1..MaxIds : SelectFrame(frameId)
    \/ Idle /\ \E frameId \in 1..MaxIds, direction \in Directions, eager \in BOOLEAN :
                  InsertFrame(frameId, direction, eager)
    \/ Idle /\ \E frameId \in 1..MaxIds : DeleteFrameButton(frameId)
    \/ Idle /\ handlePlay
    \/ \E frameOffset \in 0..MaxOffset : animate(frameOffset)
    \/ Idle /\ ClearProject
    \/ ProjectCleared

SpecTimeline == InitTimeline /\ [][NextTimeline]_vars

\* drawing on the frames of an imported video and tracing them: the commit
\* of a stroke runs on the animation frame after the gesture, whatever the
\* workspace shows by then
InitTraceDraw == Start(IdsTraceDraw)

NextTraceDraw ==
    \/ Idle /\ VideoSelected
    \/ \E contents \in TwoVideos, height \in VideoHeights :
          VideoDecoded(contents, height, Undefined)
    \/ VideoSaved
    \/ Idle /\ \E frameId \in 1..MaxIds : SelectFrame(frameId)
    \/ Idle /\ FinishStroke(<<0, 0, 1, 1>>)
    \/ CommitStroke
    \/ Idle /\ AutoTrace
    \/ OutlineReturned
    \/ OutlineFailed

SpecTraceDraw == InitTraceDraw /\ [][NextTraceDraw]_vars

\* the two operations that write frame images to the engine's file system,
\* one at a time, each ending well or with an error; the export dialog is
\* confirmed as it opens, with no checkbox changed
InitEngine == Start(IdsEngine)

NextEngine ==
    \/ Idle /\ CreateBlankCanvas(DefaultBackground)
    \/ BlankCanvasSaved
    \/ Idle /\ VideoSelected
    \/ \E contents \in TwoVideos, height \in VideoHeights :
          VideoDecoded(contents, height, Undefined)
    \/ VideoFailed
    \/ VideoSaved
    \/ Idle /\ \E frameId \in 1..MaxIds : SelectFrame(frameId)
    \/ Idle /\ AddLayer
    \/ Visibility
    \/ Idle /\ MovieGenerate({}, FALSE)
    \/ FrameRendered
    \/ MovieEncoded
    \/ MovieFailed

SpecEngine == InitEngine /\ [][NextEngine]_vars

Init == Start(IdsControls)

Next ==
    \/ Returns(TwoVideos)
    \/ CancelAutoTrace
    \/ Starts
    \/ Layers(OneImage)
    \/ Frames
    \/ DeleteControls

Spec == Init /\ [][Next]_vars

-----
(* Properties *)

\* C1: k undos of a layer followed by k redos, with no commit in between,
\* leave the layer's stroke list as it was before the first undo.
UndoRedoRestoresStrokes ==
    (hist.op = "undoRun" /\ hist.undos > 0 /\ hist.redos = hist.undos)
        => StrokesAt(project, hist.key) = hist.strokes

\* C2: after an undo and a commit on the same frame and layer the redo stack
\* of that key is empty, and a redo that follows changes nothing: the stroke
\* list is the list before the undo without its last stroke, then the new one.
CommitAfterUndoClearsRedo ==
    hist.op \in {"undoCommit", "undoCommitRedo"}
        => /\ StackOf(redoStacks, hist.key) = <<>>
           /\ StrokesAt(project, hist.key) = hist.strokes

\* undo, commit and redo have run on a layer
UndoCommitRedoHasRun ==
    /\ hist.op = "undoCommitRedo"
    /\ Len(hist.strokes) > 0

\* C3: every frame's frameNumber is its index in project.frames.
FrameNumberIsIndex ==
    ~project.isNull =>
        \A i \in 1..Len(project.frames) : project.frames[i].frameNumber = i - 1

\* the first of three frames has been deleted
FirstOfThreeDeleted ==
    /\ hist.op = "deleteFrame"
    /\ hist.count = 3
    /\ hist.index = 1
    /\ Len(project.frames) = 2

\* C4: every frame has at least one layer, and a call of handleDeleteLayer
\* leaves every frame that has one layer as it is.
SoleLayerIsKept ==
    /\ [](~project.isNull =>
            \A i \in 1..Len(project.frames) : Len(project.frames[i].layers) >= 1)
    /\ [][hist'.op = "deleteLayer" =>
            /\ Len(project'.frames) = Len(project.frames)
            /\ \A i \in 1..Len(project.frames) :
                   Len(project.frames[i].layers) = 1
                       => project'.frames[i] = project.frames[i]]_vars

\* a delete with scope 'all' has named the only layer of one frame and has
\* removed a layer of another
SoleLayerWasNamed ==
    /\ hist.op = "deleteLayer"
    /\ hist.scope = "all"
    /\ hist.sole
    /\ hist.removed > 0

\* C5: a project has at least one frame, and handleDeleteFrame on a project
\* of one frame changes nothing.
FramesNeverEmpty ==
    /\ [](~project.isNull => Len(project.frames) >= 1)
    /\ [][(hist'.op = "deleteFrame" /\ hist'.count = 1)
            => (project' = project /\ activeFrameId' = activeFrameId)]_vars

\* handleDeleteFrame has been called on the only frame
OnlyFrameDeleteCalled ==
    /\ hist.op = "deleteFrame"
    /\ hist.count = 1
    /\ hist.index = 1

\* C6: every frame's activeLayerId is the id of one of its layers.
ActiveLayerIsInFrame ==
    ~project.isNull =>
        \A i \in 1..Len(project.frames) :
            project.frames[i].activeLayerId \in LayerIds(project.frames[i])

\* a delete has removed the active layer of a frame
ActiveLayerWasDeleted ==
    /\ hist.op = "deleteLayer"
    /\ hist.wasActive
    /\ hist.removed > 0

\* C7: a delete of layers from the controls of StageEditor removes no layer
\* whose name, trimmed and in lower case, is 'layer 1'.
ProtectedLayerIsKept ==
    [][hist'.op \in {"deleteLayer", "executeDeleteLayers"} =>
        /\ Len(project'.frames) = Len(project.frames)
        /\ \A i \in 1..Len(project.frames) :
               \A j \in 1..Len(project.frames[i].layers) :
                   toLowerCase(trim(project.frames[i].layers[j].name)) = PROTECTED_LAYER_NAME
                       => project.frames[i].layers[j].id \in LayerIds(project'.frames[i])]_vars

\* the delete dialog has removed layers of two frames, with scope 'all'
DialogDeletedInAllFrames ==
    /\ hist.op = "executeDeleteLayers"
    /\ hist.scope = "all"
    /\ hist.removed >= 2

\* C8: when the active frame, the i-th of n >= 2 frames, is deleted, the
\* active frame becomes the frame at index min(i, n-2) (from 0) of the new
\* list: the frame that followed the deleted one, or the new last frame.
DeletedActiveFrameHandsOver ==
    [][(hist'.op = "deleteFrame" /\ hist'.wasActive /\ hist'.count >= 2) =>
        LET i == hist'.index
            n == hist'.count
        IN  /\ Len(project'.frames) = n - 1
            /\ activeFrameId' = project'.frames[Min(i - 1, n - 2) + 1].id
            /\ activeFrameId' = IF i < n THEN project.frames[i + 1].id
                                ELSE project.frames[n - 1].id]_vars

\* the active frame, the middle one of three, has been deleted
MiddleActiveFrameDeleted ==
    /\ hist.op = "deleteFrame"
    /\ hist.wasActive
    /\ hist.count = 3
    /\ hist.index = 2
    /\ Len(project.frames) = 2

\* a frame with the visibility flags of its layers put aside
WithoutVisibility(frame) ==
    [frame EXCEPT !.layers =
        [j \in 1..Len(frame.layers) |-> [frame.layers[j] EXCEPT !.visible = TRUE]]]

\* C9: a second applyImageToFrames(url, 'all') right after the first leaves
\* the layer count of every frame as it is, changes nothing but visibility
\* flags, and leaves the layers of that url as visible as the first did.
ApplyAllTwiceChangesNothing ==
    [][hist'.op = "applyAllTwice" =>
        /\ nextId' = nextId
        /\ project'.name = project.name
        /\ project'.backgroundColor = project.backgroundColor
        /\ project'.audioUrl = project.audioUrl
        /\ Len(project'.frames) = Len(project.frames)
        /\ \A i \in 1..Len(project.frames) :
               /\ Len(project'.frames[i].layers) = Len(project.frames[i].layers)
               /\ WithoutVisibility(project'.frames[i]) = WithoutVisibility(project.frames[i])
               /\ \A j \in 1..Len(project.frames[i].layers) :
                      project.frames[i].layers[j].imageUrl = hist'.url
                          => project'.frames[i].layers[j].visible
                                = project.frames[i].layers[j].visible]_vars

\* an image has been applied twice to all the frames of a project of two
\* frames or more
AppliedTwiceToFrames ==
    /\ hist.op = "applyAllTwice"
    /\ Len(project.frames) >= 2
    /\ \A i \in 1..Len(project.frames) :
           \E j \in 1..Len(project.frames[i].layers) :
               project.frames[i].layers[j].imageUrl = hist.url

\* the image references of the layers of the frames
ImageUrls(frames) ==
    {AllLayers(frames)[k].imageUrl : k \in 1..Len(AllLayers(frames))} \ {NoUrl}

\* C10: handleInsertFrame puts the new frame right before ('left') or right
\* after ('right') the source frame and keeps the order of the other frames;
\* the new frame has one empty visible layer, which is its active layer,
\* followed by one hidden layer for each image reference of the project, none
\* of them twice.
InsertedFrameIsAdjacentAndSeeded ==
    [][hist'.op = "insertFrame" =>
        LET s == hist'.index
            n == hist'.count
            p == IF hist'.scope = "left" THEN s ELSE s + 1
            new == project'.frames[p]
            others == RemoveAt(project'.frames, p)
            urls == ImageUrls(project.frames)
            copies == SubSeq(new.layers, 2, Len(new.layers))
        IN  /\ Len(project'.frames) = n + 1
            /\ new.id \notin FrameIds(project)
            /\ \A i \in 1..n : others[i].id = project.frames[i].id
            /\ \A i \in 1..n :
                   [others[i] EXCEPT !.frameNumber = 0]
                       = [project.frames[i] EXCEPT !.frameNumber = 0]
            /\ IF hist'.scope = "left"
               THEN project'.frames[p + 1].id = project.frames[s].id
               ELSE project'.frames[p - 1].id = project.frames[s].id
            /\ Len(new.layers) = 1 + Cardinality(urls)
            /\ new.layers[1].strokes = <<>>
            /\ new.layers[1].imageUrl = NoUrl
            /\ new.layers[1].visible
            /\ new.activeLayerId = new.layers[1].id
            /\ \A k \in 1..Len(copies) :
                   /\ ~copies[k].visible
                   /\ copies[k].imageUrl \in urls
                   /\ copies[k].strokes = <<>>
            /\ \A k, m \in 1..Len(copies) :
                   copies[k].imageUrl = copies[m].imageUrl => k = m
            /\ {copies[k].imageUrl : k \in 1..Len(copies)} = urls]_vars

\* a frame has been inserted into a project of two frames that both held a
\* layer of the same image
InsertedWithSharedImage ==
    /\ hist.op = "insertFrame"
    /\ hist.count = 2
    /\ \E url \in ImageUrls(project.frames) :
           \A i \in 1..Len(project.frames) :
               \E j \in 1..Len(project.frames[i].layers) :
                   project.frames[i].layers[j].imageUrl = url

\* the strokes of the layers of the frames
AllStrokes(frames) ==
    Flatten([k \in 1..Len(AllLayers(frames)) |-> AllLayers(frames)[k].strokes])

\* C11: a finished stroke of one coordinate pair is rejected: the call leaves
\* the project, the redo stacks and the commits that wait as they are, and
\* every stroke of a layer, of a redo stack or of a waiting commit has at
\* least two coordinate pairs (four numbers).
SinglePairIsRejected ==
    /\ [](/\ \A k \in 1..Len(AllStrokes(project.frames)) :
                 Len(AllStrokes(project.frames)[k].points) >= 4
          /\ \A key \in DOMAIN redoStacks : \A k \in 1..Len(redoStacks[key]) :
                 Len(redoStacks[key][k].points) >= 4
          /\ \A k \in 1..Len(pendingCommits) :
                 Len(pendingCommits[k].stroke.points) >= 4)
    /\ [][hist'.finished = 2 =>
            /\ project' = project
            /\ redoStacks' = redoStacks
            /\ pendingCommits' = pendingCommits]_vars

\* a stroke of one pair has been finished on a layer that has a stroke and
\* an undone stroke
SinglePairFinished ==
    /\ hist.finished = 2
    /\ HasActiveLayer
    /\ Len(ActiveLayer.strokes) > 0
    /\ Len(StackOf(redoStacks, StackKey(ActiveFrame.id, ActiveLayer.id))) > 0

\* C12: a commit whose frame or layer is not in the project changes nothing:
\* the project and every redo stack are after the call what they were before
\* it, and the redo stacks get no entry for the key of the commit.
CommitToMissingChangesNothing ==
    [][hist'.op = "commitMissing" =>
        /\ project' = project
        /\ redoStacks' = redoStacks
        /\ (hist'.key \in DOMAIN redoStacks') = (hist'.key \in DOMAIN redoStacks)]_vars

\* the layers of the frame of that id in the project (none when it is gone)
LayerIdsOf(p, frameId) ==
    IF FrameIndexOf(p, frameId) = 0 THEN {}
    ELSE LayerIds(p.frames[FrameIndexOf(p, frameId)])

\* C13: once a delete of layers, with scope 'frame' or 'all', has removed a
\* layer of a frame, the redo stacks have no entry for the key of that frame
\* and layer; and no stroke of a redo stack whose layer is gone is a stroke
\* of a layer of the project.
DeletedLayerHasNoRedoKey ==
    /\ [][hist'.op \in {"deleteLayer", "executeDeleteLayers"} =>
            \A i \in 1..Len(project.frames) :
                \A layerId \in LayerIds(project.frames[i]) :
                    layerId \notin LayerIdsOf(project', project.frames[i].id)
                        => StackKey(project.frames[i].id, layerId)
                              \notin DOMAIN redoStacks']_vars
    /\ [](\A key \in DOMAIN redoStacks :
             ~HasLayer(project, key[1], key[2]) =>
                 \A k \in 1..Len(redoStacks[key]) :
                     \A m \in 1..Len(AllStrokes(project.frames)) :
                         AllStrokes(project.frames)[m].id # redoStacks[key][k].id)

\* C13, its second half alone
UndoneStrokesOfGoneLayersStayGone ==
    \A key \in DOMAIN redoStacks :
        ~HasLayer(project, key[1], key[2]) =>
            \A k \in 1..Len(redoStacks[key]) :
                \A m \in 1..Len(AllStrokes(project.frames)) :
                    AllStrokes(project.frames)[m].id # redoStacks[key][k].id

\* the rasters of the running export, each with the frame it was made of
Rendered ==
    IF movieExport.pc = "idle" THEN {}
    ELSE {<<movieExport.frames[k], movieExport.rasters[k]>> :
             k \in 1..Len(movieExport.rasters)}

\* C14: during export a layer of a frame is painted if and only if the override
\* map holds true for the layer's name when it has an entry for that name, and
\* otherwise if and only if the layer's own visible flag is true
ExportPaintsByOverrideElseFlag ==
    \A fr \in Rendered :
        \A j \in 1..Len(fr[1].layers) :
            LET layer == fr[1].layers[j]
                overrides == movieExport.layerSettings
            IN  /\ layer.name \in DOMAIN overrides =>
                      (j \in fr[2].painted <=> overrides[layer.name] = TRUE)
                /\ layer.name \notin DOMAIN overrides =>
                      (j \in fr[2].painted <=> layer.visible = TRUE)

\* a frame was rendered that has a layer the map has no entry for and a
\* layer whose entry differs from its own flag
OverriddenAndFallbackRendered ==
    \E fr \in Rendered :
        /\ \E j \in 1..Len(fr[1].layers) :
              /\ fr[1].layers[j].name \notin DOMAIN movieExport.layerSettings
              /\ j \in fr[2].painted
        /\ \E j \in 1..Len(fr[1].layers) :
              /\ fr[1].layers[j].name \in DOMAIN movieExport.layerSettings
              /\ movieExport.layerSettings[fr[1].layers[j].name] # fr[1].layers[j].visible


\* the rasters of the running export whose frame came from a video, when the
\* override map hides the video layer
RenderedWithoutVideo ==
    {fr \in Rendered :
        /\ \E j \in 1..Len(fr[1].layers) :
              /\ fr[1].layers[j].name = VideoLayerName
              /\ fr[1].layers[j].imageUrl.kind = "frame"
        /\ VideoLayerName \in DOMAIN movieExport.layerSettings
        /\ movieExport.layerSettings[VideoLayerName] = FALSE}

\* C15: when a project imported from video is exported with an override that
\* hides 'Video Layer 1', every exported frame is painted starting from the
\* frame's base image: it shows the base image's solid colour and not the
\* video content
ExportWithoutVideoShowsBaseImage ==
    \A fr \in RenderedWithoutVideo :
        /\ fr[1].imageUrl.kind = "background"
        /\ fr[2].fill = fr[1].imageUrl.tag
        /\ \A image \in fr[2].images : image.kind # "frame"

\* the part of C15 the export does keep: the video content is not painted
ExportWithoutVideoHidesVideo ==
    \A fr \in RenderedWithoutVideo :
        \A image \in fr[2].images : image.kind # "frame"


\* the layers handleAutoTrace has added to frame i of the frames it was called
\* with, when its loop ended
TraceLayersOf(i) ==
    {hist.collected[i].layers[j] : j \in
        (Len(hist.captured[i].layers) + 1)..Len(hist.collected[i].layers)}

\* the loop of handleAutoTrace has just ended on a cancel that came when at
\* least one frame had been traced
CancelledAfterTracing ==
    /\ hist.op = "traceCancelled"
    /\ hist.count >= 1

\* C16: when a batch auto-trace is cancelled after at least one frame has been
\* traced, the trace layers of the traced frames are in the project once the
\* operation has ended, and the frames not yet processed are as they were
CancelledTraceKeepsTracedFrames ==
    CancelledAfterTracing =>
        /\ \A i \in 1..Len(hist.collected) :
              \E j \in 1..Len(project.frames) :
                  /\ project.frames[j].id = hist.collected[i].id
                  /\ \A layer \in TraceLayersOf(i) :
                        \E h \in 1..Len(project.frames[j].layers) :
                            project.frames[j].layers[h] = layer
        /\ \A i \in (Len(hist.collected) + 1)..Len(hist.captured) :
              \E j \in 1..Len(project.frames) : project.frames[j] = hist.captured[i]

\* the part of C16 that holds: a cancelled auto-trace leaves every frame it
\* was called with as it was
CancelledTraceChangesNoFrame ==
    hist.op = "traceCancelled" =>
        \A i \in 1..Len(hist.captured) :
            \E j \in 1..Len(project.frames) : project.frames[j] = hist.captured[i]


\* the operations that use the engines and are in progress
EngineOperations ==
    {op \in {"videoImport", "movieExport", "autoTrace"} :
        \/ op = "videoImport" /\ videoImport.pc # "idle"
        \/ op = "movieExport" /\ movieExport.pc # "idle"
        \/ op = "autoTrace" /\ autoTrace.pc # "idle"}

\* C17: at most one of video import, movie export and batch auto-trace is in
\* progress at any time, and isProcessing is not cleared while one of them
\* is still running
OneEngineOperationAtATime ==
    /\ Cardinality(EngineOperations) <= 1
    /\ EngineOperations # {} => isProcessing


\* C18: once every write in flight has completed, the stored document is the
\* project in memory; after a clear the store is empty
StoredIsLatestProject ==
    writes = <<>> => stored = project


\* C19: when the import of a video fails at any of its steps, the project and
\* the active frame are what they were when the import started
FailedImportChangesNothing ==
    hist.op = "importFailed" =>
        /\ project = hist.before[1]
        /\ activeFrameId = hist.before[2]

\* an import started over an open project has failed
ImportOverProjectFailed ==
    /\ hist.op = "importFailed"
    /\ ~hist.before[1].isNull
    /\ videoImport.pc = "idle"


\* the handler whose task record is `task` ends in this step
Ends(task) == task.pc # "idle" /\ task'.pc = "idle"

\* C20: every video import, movie export, blank-canvas creation and batch
\* auto-trace that has started ends once its awaited calls have returned, and
\* the step that ends it, by success, failure or cancel, sets isProcessing to
\* false
StartedOperationClearsBusyFlag ==
    /\ videoImport.pc # "idle" ~> videoImport.pc = "idle"
    /\ movieExport.pc # "idle" ~> movieExport.pc = "idle"
    /\ blankCanvas.pc # "idle" ~> blankCanvas.pc = "idle"
    /\ autoTrace.pc # "idle" ~> autoTrace.pc = "idle"
    /\ [][(Ends(videoImport) \/ Ends(movieExport) \/ Ends(blankCanvas)
              \/ Ends(autoTrace)) => isProcessing' = FALSE]_vars

\* a cancelled auto-trace has ended with the flag cleared
CancelledTraceCleared ==
    /\ hist.op = "traceCancelled"
    /\ autoTrace.pc = "idle"
    /\ ~isProcessing


\* where the layers of `old` and of `new`, which has one layer less, part: the
\* index in `old` of the layer that was removed
RemovedAt(old, new) ==
    CHOOSE i \in 1..Len(old.layers) :
        /\ \A j \in 1..(i - 1) : old.layers[j] = new.layers[j]
        /\ i > Len(new.layers) \/ old.layers[i] # new.layers[i]

\* C21: when a call of deleteLayer removes from a frame the layer at index i
\* that is the frame's active layer, the frame's active layer becomes the layer
\* that was at index i-1, or the layer that becomes first when i is the first
\* index; when the layer removed is not the active one, or no layer is removed,
\* activeLayerId stays as it is
DeleteFallsBackToLayerBefore ==
    [][hist'.op = "deleteLayer" =>
        /\ Len(project'.frames) = Len(project.frames)
        /\ \A k \in 1..Len(project.frames) :
              LET old == project.frames[k]
                  new == project'.frames[k]
              IN  IF Len(new.layers) = Len(old.layers)
                  THEN new.activeLayerId = old.activeLayerId
                  ELSE /\ Len(new.layers) = Len(old.layers) - 1
                       /\ LET i == RemovedAt(old, new)
                          IN  IF old.layers[i].id # old.activeLayerId
                              THEN new.activeLayerId = old.activeLayerId
                              ELSE IF i > 1
                              THEN new.activeLayerId = old.layers[i - 1].id
                              ELSE new.activeLayerId = old.layers[2].id]_vars

\* the active layer of the active frame, third of its frame, was deleted
ThirdActiveLayerDeleted ==
    /\ hist.op = "deleteLayer"
    /\ hist.wasActive
    /\ hist.removed > 0
    /\ hist.index = 3
    /\ ~project.isNull
    /\ HasActiveFrame
    /\ LayerIndexOf(ActiveFrame, hist.layerId) = 0


\* C25: a call of deleteLayer with scope 'all' removes, from the frame that
\* holds the layer with the given id among two layers or more, exactly that
\* layer and no other: the layers of the frame after the call are its layers
\* before the call without the one that has the id, whatever names they carry
DeleteAllRemovesLayerWithId ==
    [][(hist'.op = "deleteLayer" /\ hist'.scope = "all") =>
        \A k \in 1..Len(project.frames) :
            LET old == project.frames[k]
                i == LayerIndexOf(old, hist'.layerId)
            IN  (i # 0 /\ Len(old.layers) > 1) =>
                   /\ Len(project'.frames) = Len(project.frames)
                   /\ project'.frames[k].layers = RemoveAt(old.layers, i)]_vars

\* the keys of the layers of a project
KeysOf(p) ==
    {key \in (1..MaxIds) \X (1..MaxIds) : HasLayer(p, key[1], key[2])}

\* C22: an undo, a redo or a commit of a stroke made for one (frameId, layerId)
\* key leaves the redo stack of every other key and the strokes of every
\* other layer, of the same frame and of the other frames, as they were
StrokeCallsTouchOneKey ==
    [][hist'.call \in {"undo", "redo", "commit"} =>
        /\ \A key \in (DOMAIN redoStacks \cup DOMAIN redoStacks') \ {hist'.target} :
              /\ key \in DOMAIN redoStacks
              /\ key \in DOMAIN redoStacks'
              /\ redoStacks'[key] = redoStacks[key]
        /\ KeysOf(project') = KeysOf(project)
        /\ \A key \in KeysOf(project) \ {hist'.target} :
              StrokesAt(project', key) = StrokesAt(project, key)]_vars

\* a stroke has been committed to a layer while another layer has strokes
\* and strokes to redo
CommittedBesideUndoneLayer ==
    /\ hist.call = "commit"
    /\ StrokesAt(project, hist.target) # <<>>
    /\ \E key \in KeysOf(project) \ {hist.target} :
          /\ StrokesAt(project, key) # <<>>
          /\ StackOf(redoStacks, key) # <<>>


\* C23: every change of the project other than its creation by an import or
\* as a blank canvas leaves its name, its background colour and its audio
\* track as they were
EditsKeepNameBackgroundAudio ==
    [][(/\ ~project.isNull
        /\ ~project'.isNull
        /\ videoImport' = videoImport
        /\ blankCanvas' = blankCanvas) =>
            /\ project'.name = project.name
            /\ project'.backgroundColor = project.backgroundColor
            /\ project'.audioUrl = project.audioUrl]_vars


\* C24: whenever there is a project and a frame is selected, activeFrameId is
\* the id of a frame of project.frames
ActiveFrameIsInProject ==
    (hasProject /\ activeFrameId # NullId) => activeFrameId \in FrameIds(project)

\* C26: when an auto-trace applies its results, the strokes the project holds
\* at that moment, those committed while the trace ran included, are in the
\* project afterwards: every layer of the project is still there with the
\* strokes it had
TraceKeepsChangesMadeMeanwhile ==
    [][(hist'.op = "traceEnded" /\ TraceApplied(hist'.collected, FALSE)) =>
        \A key \in KeysOf(project) :
            /\ HasLayer(project', key[1], key[2])
            /\ StrokesAt(project', key) = StrokesAt(project, key)]_vars

\* C27: whenever neither an import nor an export is running, the engine's
\* file system holds no frame image file
NoFrameFileBetweenOperations ==
    (videoImport.pc = "idle" /\ movieExport.pc = "idle") => DOMAIN frameFiles = {}

\* C28: clearFrame leaves the id, the frameNumber, the width and the height
\* of the frame it clears as they were
ClearFrameKeepsIdNumberAndSize ==
    [][hist'.op = "clearFrame" =>
        LET k == FrameIndexOf(project, hist'.frameId)
            old == project.frames[k]
            new == project'.frames[k]
        IN  /\ Len(project'.frames) = Len(project.frames)
            /\ new.id = old.id
            /\ new.frameNumber = old.frameNumber
            /\ new.width = old.width
            /\ new.height = old.height]_vars

\* C29: applyImageToFrames(dataUrl, 'frame') changes the active frame only:
\* every other frame has afterwards the layers it had, each with the
\* visibility flag it had
ApplyToFrameLeavesOtherFrames ==
    [][hist'.op = "applyFrame" =>
        /\ Len(project'.frames) = Len(project.frames)
        /\ \A i \in 1..Len(project.frames) :
              project.frames[i].id # activeFrameId =>
                 project'.frames[i].layers = project.frames[i].layers]_vars

\* C30: an export confirmed with the settings the dialog opens with paints,
\* on the canvas of each frame, exactly the layers of that frame whose own
\* visible flag is true
DefaultExportPaintsVisibleLayers ==
    (/\ movieExport.pc # "idle"
     /\ movieExport.layerSettings = InitialSettings(movieExport.frames)) =>
        \A fr \in Rendered :
            fr[2].painted = {j \in 1..Len(fr[1].layers) : fr[1].layers[j].visible}

====
